---- MODULE Spec2Model ----
(***************************************************************************)
(* A model of the "You're Not Alone" extension client: the WebSocketClient *)
(* (webSocketClient.ts), the check-in buffer of SecondaryCheckInView, the  *)
(* relay transport as the environment, the timers and the promise          *)
(* continuations of the single-threaded event loop.                        *)
(*                                                                         *)
(* Time is counted in ticks of half a millisecond, so that every value     *)
(* reconnectInterval can take (5000 * 1.5^k ms, e.g. 25312.5 ms) is an     *)
(* integer.  Date.now() is the clock in whole milliseconds.                *)
(***************************************************************************)
EXTENDS Integers, Sequences, FiniteSets, TLC

VARIABLES
    now,                      \* the event loop's clock, in ticks
    socket,                   \* this.socket: a socket id, 0 for null
    sockets,                  \* every WebSocket created so far: id -> [state, listeners]
    reconnectInterval,        \* this.reconnectInterval, in ticks
    initialHistoryReceived,   \* this.initialHistoryReceived
    receivingInitialHistory,  \* this.receivingInitialHistory
    allReceivedCheckIns,      \* this.allReceivedCheckIns
    onlineUsersCount,         \* this.onlineUsersCount
    lastCheckInTime,          \* this.lastCheckInTime, in ms (Date.now())
    currentReconnectAttempt,  \* this._currentReconnectAttempt, in ms
    isAuthenticated,          \* this.isAuthenticated
    timers,                   \* pending setTimeout / setInterval callbacks
    tasks,                    \* pending promise continuations (token fetches)
    checkIns,                 \* SecondaryCheckInView.checkIns
    pendingCheckIns,          \* SecondaryCheckInView.pendingCheckIns
    webviewReady,             \* SecondaryCheckInView.webviewReady
    readyMessageReceived,     \* SecondaryCheckInView.readyMessageReceived
    hasView,                  \* SecondaryCheckInView._view !== undefined
    viewVisible,              \* SecondaryCheckInView._view.visible
    newCheckInsCount,         \* SecondaryCheckInView.newCheckInsCount
    providerCheckIns,         \* CheckInProvider.checkIns
    avatarsCheckIns,          \* LargerAvatarsProvider.checkIns
    insertedUsernames,        \* history: the usernames addCheckIn was called with
    visibleEditors,           \* vscode.window.visibleTextEditors
    recentFiles,              \* FileHistoryTracker.recentFiles, in insertion order
    fileAdds,                 \* history: the paths addFile was called with, in order
    out,                      \* the events fired by the last step, in order
    wire,                     \* the messages written to sockets by the last step
    last,                     \* the handler that ran in the last step
    obs,                      \* history of the run the properties refer to
    budget,                   \* external stimuli still allowed in this run
    horizon                   \* the clock value at which this run stops

vars == <<now, socket, sockets, reconnectInterval, initialHistoryReceived,
          receivingInitialHistory, allReceivedCheckIns, onlineUsersCount,
          lastCheckInTime, currentReconnectAttempt, isAuthenticated, timers,
          tasks, checkIns, pendingCheckIns, webviewReady, readyMessageReceived,
          hasView, viewVisible, newCheckInsCount, providerCheckIns, avatarsCheckIns,
          insertedUsernames, visibleEditors, recentFiles, fileAdds, out, wire, last,
          obs, budget, horizon>>

clientVars == <<socket, sockets, reconnectInterval, initialHistoryReceived,
                receivingInitialHistory, allReceivedCheckIns, onlineUsersCount,
                lastCheckInTime, currentReconnectAttempt, isAuthenticated>>

viewVars == <<checkIns, pendingCheckIns, webviewReady, readyMessageReceived,
              hasView, viewVisible, newCheckInsCount>>

\* the editors and the file history getActiveFileTags reads
trackerVars == <<visibleEditors, recentFiles, fileAdds>>

\* the tree and avatar providers (extension.ts constructs neither), and with
\* them the state no handler of the client or of the view writes
providerVars == <<providerCheckIns, avatarsCheckIns, insertedUsernames,
                  visibleEditors, recentFiles, fileAdds>>

(***************************************************************************)
(* Units and program constants                                             *)
(***************************************************************************)
Ticks(ms) == 2 * ms

Min(a, b) == IF a <= b THEN a ELSE b

Max(a, b) == IF a >= b THEN a ELSE b

BaseReconnectMs == 5000

MaxReconnectMs == 30000

ConnectTimeoutMs == 10000

HistoryIdleMs == 1000

HistoryCeilingMs == 3000

ReconnectDelayMs == 500

SettleDelayMs == 1000

EchoDelayMs == 500

CooldownTickMs == 1000

PendingRetryMs == 2000

cooldownPeriodMs == 600000

MAX_CHARS == 42

MaxCheckIns == 100

autoReconnect == TRUE

\* the run starts at Date.now() = StartMs
StartMs == 1000000

\* the usernames of a run; LocalUser is the signed-in one
LocalUser == "alice"

Users == {LocalUser, "bob"}

\* the usernames of simulateData's sample check-ins, in order
SampleData == <<"johndoe", "janedoe", "bobsmith", "sarahlee", "mikebrown">>

SampleMessage == <<3>>

AllUsers == Users \cup {SampleData[i] : i \in 1..Len(SampleData)}

\* the instants the relay's check-ins carry
RelayTimestamps == {StartMs - 60000, StartMs, StartMs + 500}

RelayMessage == <<2>>

LongMessageLen == MAX_CHARS + 1

\* the messages a user submits: a short one and one over the limit
SentMessages == {<<1>>, [i \in 1..LongMessageLen |-> 1]}

\* Date.now(): the clock in whole milliseconds
DateNow == now \div 2


(***************************************************************************)
(* Data                                                                    *)
(***************************************************************************)
\* A check-in as the buffers hold it.  timestamp is the instant, in ms, that
\* new Date(timestamp).getTime() yields for the ISO string on the wire;
\* message is the sequence of UTF-16 code units.
NoCheckIn == [username |-> "", timestamp |-> 0, message |-> <<>>]

\* A pending timer: n is the value its closure captured (a socket id, an
\* attempt id); mark is history the properties use, never read by a callback
\* (for an attempt timer the ordinal of its registration, for a backoff timer
\* 1 once reconnect() has been called after it was armed).
Timer(kind, due, n) == [kind |-> kind, due |-> due, n |-> n, mark |-> 0, msg |-> NoCheckIn]

MsgTimer(kind, due, c) == [kind |-> kind, due |-> due, n |-> 0, mark |-> 0, msg |-> c]

\* A pending promise continuation: c is the argument its closure captured;
\* mark is history (for a connect() continuation 1 once the history event
\* has fired since that connect(), carried over to the ceiling timer of the
\* socket it creates).
Task(kind, c) == [kind |-> kind, c |-> c, mark |-> 0]

\* history annotation: the history event fires while these continuations or
\* timers pend
HistoryFired(seq) ==
    [j \in 1..Len(seq) |->
        IF seq[j].kind \in {"connect", "historyCeiling", "historyRequest"}
        THEN [seq[j] EXCEPT !.mark = 1] ELSE seq[j]]

Event(ev, val) == [ev |-> ev, val |-> val]

StatusTrue == Event("status", 1)

StatusFalse == Event("status", 0)

\* history annotations: a check-in went through storeCheckIn / addCheckIn
NoteStored(o, c) ==
    [o EXCEPT !.maxStored[c.username] = Max(@, c.timestamp),
              !.stored = @ + 1,
              !.lateStored = @ + (IF c.timestamp < o.maxStored[c.username] THEN 1 ELSE 0)]

NoteShown(o, c) ==
    [o EXCEPT !.maxShown[c.username] = Max(@, c.timestamp),
              !.shown = @ + 1,
              !.lateShown = @ + (IF c.timestamp < o.maxShown[c.username] THEN 1 ELSE 0)]

RECURSIVE NoteShownAll(_, _)
NoteShownAll(o, list) ==
    IF list = <<>> THEN o ELSE NoteShownAll(NoteShown(o, Head(list)), Tail(list))

\* The pending timers are kept ordered by deadline; timers of one deadline
\* stay in the order they were armed.
Arm(tm, t) ==
    LET k == Cardinality({j \in 1..Len(tm) : tm[j].due <= t.due}) IN
    SubSeq(tm, 1, k) \o <<t>> \o SubSeq(tm, k + 1, Len(tm))

Remove(seq, i) == [j \in 1..(Len(seq) - 1) |-> IF j < i THEN seq[j] ELSE seq[j + 1]]

\* Array.prototype.findIndex(c => c.username === u), 1-based, 0 for -1
FindIndex(list, u) ==
    IF \E i \in 1..Len(list) : list[i].username = u
    THEN CHOOSE i \in 1..Len(list) :
            /\ list[i].username = u
            /\ \A j \in 1..(i - 1) : list[j].username # u
    ELSE 0

(***************************************************************************)
(* The ws transport                                                        *)
(***************************************************************************)
NewSocket == [state |-> "CONNECTING", listeners |-> TRUE]

\* WebSocket.close(): an open or connecting socket starts closing
CloseSocket(socks, s) ==
    IF socks[s].state \in {"CONNECTING", "OPEN"}
    THEN [socks EXCEPT ![s].state = "CLOSING"]
    ELSE socks

ReadyState(sock, socks) == IF sock = 0 THEN "NONE" ELSE socks[sock].state

isConnected == socket # 0 /\ sockets[socket].state = "OPEN"

\* a requestOnlineUsers() that writes without looking at readyState
RequestOnlineUsersWireBlind(sock, socks) ==
    <<[sock |-> sock, type |-> "online_users_request", c |-> NoCheckIn]>>

\* requestOnlineUsers() as run by the view's connection-status listener
RequestOnlineUsersWire(sock, socks) ==
    IF ReadyState(sock, socks) = "OPEN"
    THEN <<[sock |-> sock, type |-> "online_users_request", c |-> NoCheckIn]>>
    ELSE <<>>

(***************************************************************************)
(* Pure helpers of WebSocketClient                                         *)
(***************************************************************************)
\* Math.min(this.reconnectInterval * 1.5, 30000), in ticks
GrowInterval(ri) == Min((ri * 3) \div 2, Ticks(MaxReconnectMs))

\* replace-if-latest-arrived: the rule storeCheckIn does not follow
storeCheckInLatest(list, c) ==
    LET existingIndex == FindIndex(list, c.username) IN
    IF existingIndex # 0 THEN [list EXCEPT ![existingIndex] = c] ELSE Append(list, c)

\* keep every arrival: the rule storeCheckIn does not follow
storeCheckInAppend(list, c) == Append(list, c)

storeCheckIn(list, c) ==
    LET existingIndex == FindIndex(list, c.username) IN
    IF existingIndex # 0
    THEN IF c.timestamp > list[existingIndex].timestamp
         THEN [list EXCEPT ![existingIndex] = c]
         ELSE list
    ELSE Append(list, c)

\* a gate that is always open
canCheckInAlways(t, lastTime) == TRUE

canCheckInAt(t, lastTime) == t - lastTime >= cooldownPeriodMs

canCheckIn == canCheckInAt(DateNow, lastCheckInTime)

\* the remaining time without the floor at 0
getRemainingCooldownTimeUnclamped(t, lastTime) == cooldownPeriodMs - (t - lastTime)

getRemainingCooldownTimeAt(t, lastTime) ==
    LET elapsed == t - lastTime IN
    IF elapsed >= cooldownPeriodMs THEN 0 ELSE cooldownPeriodMs - elapsed

getRemainingCooldownTime == getRemainingCooldownTimeAt(DateNow, lastCheckInTime)

\* the message passed on as it was submitted
TruncateNone(message) == message

\* message.length > MAX_CHARS ? message.substring(0, MAX_CHARS) : message
Truncate(message) ==
    IF Len(message) > MAX_CHARS THEN SubSeq(message, 1, MAX_CHARS) ELSE message

(***************************************************************************)
(* SecondaryCheckInView                                                    *)
(***************************************************************************)
isVisible == hasView /\ viewVisible

\* the pendingCheckIns.push loop of updateView's else branch
RECURSIVE PushMissing(_, _)
PushMissing(pend, list) ==
    IF list = <<>> THEN pend
    ELSE PushMissing(IF FindIndex(pend, Head(list).username) = 0
                     THEN Append(pend, Head(list)) ELSE pend,
                     Tail(list))

\* the copy of the list left as it is: what a post without the sort carries
unsortedCheckIns(cis) == cis

\* [...this.checkIns].sort((a, b) => b.timestamp - a.timestamp): a stable
\* sort of a copy, newest first
sortedCheckIns(cis) ==
    LET n == Len(cis)
        \* the place of entry i: after every newer entry and after the
        \* earlier entries of the same timestamp
        place == SubSeq([i \in 1..n |->
                     1 + Cardinality({j \in 1..n :
                             \/ cis[j].timestamp > cis[i].timestamp
                             \/ cis[j].timestamp = cis[i].timestamp /\ j < i})],
                        1, n)
    IN  SubSeq([k \in 1..n |-> cis[CHOOSE i \in 1..n : place[i] = k]], 1, n)

\* updateView(): the message it posts to the webview
updateViewPosts(cis) ==
    IF hasView /\ webviewReady
    THEN <<Event("updateCheckIns", sortedCheckIns(cis))>> ELSE <<>>

\* updateView(): the value it leaves in pendingCheckIns
updateView(cis, pend) ==
    IF hasView /\ webviewReady THEN <<>>
    ELSE IF ~webviewReady /\ Len(cis) > 0 THEN PushMissing(pend, cis)
    ELSE pend

\* an addCheckIn that takes whatever arrives last for a listed username
addCheckInLatest(v, c) ==
    LET existingIndex == FindIndex(v.checkIns, c.username)
        list == IF existingIndex # 0
                THEN [v.checkIns EXCEPT ![existingIndex] = c]
                ELSE SubSeq(Append(v.checkIns, c), 1, Min(Len(v.checkIns) + 1, MaxCheckIns))
    IN  [checkIns |-> list, pending |-> v.pending, count |-> v.count,
         fired |-> v.fired \o <<Event("checkInsCount", Len(list))>>]

\* addCheckIn(checkIn) on the view state v = [checkIns, pending, count, fired]
addCheckIn(v, c) ==
    LET existingIndex == FindIndex(v.checkIns, c.username)
        discarded == existingIndex # 0 /\ ~(c.timestamp > v.checkIns[existingIndex].timestamp)
        pushed == Append(v.checkIns, c)
        list == IF existingIndex # 0
                THEN [v.checkIns EXCEPT ![existingIndex] = c]
                ELSE IF Len(pushed) > MaxCheckIns
                     THEN SubSeq(pushed, 1, MaxCheckIns) ELSE pushed
    IN  IF discarded THEN v
        ELSE [checkIns |-> list,
              pending |-> IF webviewReady THEN updateView(list, v.pending)
                          ELSE IF FindIndex(v.pending, c.username) = 0
                               THEN Append(v.pending, c) ELSE v.pending,
              count |-> IF ~isVisible THEN v.count + 1 ELSE v.count,
              fired |-> v.fired \o (IF ~isVisible THEN <<Event("notifyNewCheckIn", v.count + 1)>> ELSE <<>>)
                                \o <<Event("checkInsCount", Len(list))>>
                                \o (IF webviewReady THEN updateViewPosts(list) ELSE <<>>)]

ViewState == [checkIns |-> checkIns, pending |-> pendingCheckIns,
              count |-> newCheckInsCount, fired |-> <<>>]

RECURSIVE addAll(_, _)
addAll(v, list) ==
    IF list = <<>> THEN v ELSE addAll(addCheckIn(v, Head(list)), Tail(list))

\* the view's onMessageReceived listener
ViewReceives(c, pre) ==
    LET v == addCheckIn(ViewState, c) IN
    /\ checkIns' = v.checkIns
    /\ pendingCheckIns' = v.pending
    /\ newCheckInsCount' = v.count
    /\ out' = pre \o <<Event("message", c.timestamp)>> \o v.fired
    /\ UNCHANGED <<webviewReady, readyMessageReceived, hasView, viewVisible>>

\* the view's onHistoryReceived listener
ViewHistory ==
    /\ pendingCheckIns' = updateView(checkIns, pendingCheckIns)
    /\ UNCHANGED <<checkIns, webviewReady, readyMessageReceived, hasView, viewVisible,
                   newCheckInsCount>>


(***************************************************************************)
(* CheckInProvider and LargerAvatarsProvider                               *)
(***************************************************************************)
\* CheckInProvider.maxCheckIns
maxCheckIns == 100

\* the bound LargerAvatarsProvider.addCheckIn writes as a literal
AvatarsMaxCheckIns == 100

\* findIndex(c => c.username === checkIn.username && c.timestamp ===
\* checkIn.timestamp), 1-based, 0 for -1
FindSame(list, c) ==
    IF \E i \in 1..Len(list) : list[i].username = c.username /\ list[i].timestamp = c.timestamp
    THEN CHOOSE i \in 1..Len(list) :
            /\ list[i].username = c.username /\ list[i].timestamp = c.timestamp
            /\ \A j \in 1..(i - 1) :
                   ~(list[j].username = c.username /\ list[j].timestamp = c.timestamp)
    ELSE 0

\* an addCheckIn that never cuts the list
CheckInProvider_addCheckInUncut(list, c) ==
    IF FindSame(list, c) # 0 THEN [list EXCEPT ![FindSame(list, c)] = c] ELSE <<c>> \o list

\* CheckInProvider.addCheckIn(checkIn): the value it leaves in checkIns
CheckInProvider_addCheckIn(list, c) ==
    LET existingIndex == FindSame(list, c)
        unshifted == <<c>> \o list
    IN  IF existingIndex # 0
        THEN [list EXCEPT ![existingIndex] = c]
        ELSE IF Len(unshifted) > maxCheckIns
             THEN SubSeq(unshifted, 1, maxCheckIns) ELSE unshifted

\* LargerAvatarsProvider.addCheckIn(checkIn): the value it leaves in checkIns
LargerAvatarsProvider_addCheckIn(list, c) ==
    LET existingIndex == FindSame(list, c)
        unshifted == <<c>> \o list
    IN  IF existingIndex # 0
        THEN [list EXCEPT ![existingIndex] = c]
        ELSE IF Len(unshifted) > AvatarsMaxCheckIns
             THEN SubSeq(unshifted, 1, AvatarsMaxCheckIns) ELSE unshifted

(***************************************************************************)
(* Steps of the event loop                                                 *)
(***************************************************************************)
Step(name, n) == last' = [name |-> name, n |-> n]

Spend == budget > 0 /\ budget' = budget - 1 /\ UNCHANGED horizon

Free == UNCHANGED <<budget, horizon>>

Due(i) == i \in 1..Len(timers) /\ timers[i].due <= now

\* fire(connected) on _onConnectionStatusChanged: the view's listener calls
\* requestOnlineUsers() when connected
FireStatus(evs, sock, socks) ==
    /\ out' = evs
    /\ wire' = IF StatusTrue \in {evs[i] : i \in 1..Len(evs)}
               THEN RequestOnlineUsersWire(sock, socks) ELSE <<>>

(***************************************************************************)
(* WebSocketClient.connect()                                               *)
(***************************************************************************)
ConnectSkips == ReadyState(socket, sockets) \in {"CONNECTING", "OPEN"}

\* what connect() fires: it re-asserts the status only when already open
ConnectEvents == IF ReadyState(socket, sockets) = "OPEN" THEN <<StatusTrue>> ELSE <<>>

\* connect(), up to the token fetch it starts; ts is the task list its caller
\* leaves
connect(ts) ==
    IF ConnectSkips
    THEN /\ UNCHANGED <<socket, sockets, initialHistoryReceived, receivingInitialHistory>>
         /\ tasks' = ts
    ELSE /\ sockets' = IF ReadyState(socket, sockets) = "CLOSING"
                       THEN [sockets EXCEPT ![socket].listeners = FALSE]
                       ELSE sockets
         /\ socket' = 0
         /\ initialHistoryReceived' = FALSE
         /\ receivingInitialHistory' = TRUE
         /\ tasks' = Append(ts, Task("connect", NoCheckIn))

\* a ceiling armed a second later than connect() arms it
CeilingTimerLate(s, mark) ==
    [Timer("historyCeiling", now + Ticks(HistoryCeilingMs + HistoryIdleMs), s) EXCEPT !.mark = mark]

\* the 3 s ceiling connect() arms for the socket it created
CeilingTimer(s, mark) ==
    [Timer("historyCeiling", now + Ticks(HistoryCeilingMs), s) EXCEPT !.mark = mark]

\* getAuthToken() resolved inside connect(): the socket is created
ConnectTokenDone(i) ==
    /\ i \in 1..Len(tasks) /\ tasks[i].kind = "connect"
    /\ tasks' = Remove(tasks, i)
    /\ sockets' = Append(sockets, NewSocket)
    /\ socket' = Len(sockets) + 1
    /\ timers' = Arm(Arm(timers, Timer("connectTimeout", now + Ticks(ConnectTimeoutMs), Len(sockets) + 1)),
                     CeilingTimer(Len(sockets) + 1, tasks[i].mark))
    /\ out' = <<>> /\ wire' = <<>>
    /\ Step("ConnectTokenDone", Len(sockets) + 1)
    /\ UNCHANGED <<now, reconnectInterval, initialHistoryReceived, receivingInitialHistory,
                   allReceivedCheckIns, onlineUsersCount, lastCheckInTime,
                   currentReconnectAttempt, isAuthenticated, obs>>
    /\ UNCHANGED viewVars /\ UNCHANGED providerVars /\ Free

\* new WebSocket(connectionUrl) throws: the catch block retries after the
\* current reconnectInterval, which it does not grow
ConnectConstructError(i) ==
    /\ i \in 1..Len(tasks) /\ tasks[i].kind = "connect"
    /\ tasks' = Remove(tasks, i)
    /\ FireStatus(<<StatusFalse>>, socket, sockets)
    /\ timers' = IF autoReconnect
                 THEN Arm(timers, Timer("retry", now + reconnectInterval, 0))
                 ELSE timers
    /\ obs' = [obs EXCEPT !.failedAttempts = @ + 1, !.lastDelay = reconnectInterval]
    /\ Step("ConnectConstructError", 0)
    /\ UNCHANGED <<now>> /\ UNCHANGED clientVars /\ UNCHANGED viewVars /\ UNCHANGED providerVars /\ Free

(***************************************************************************)
(* Socket callbacks                                                        *)
(***************************************************************************)
\* 'open': clearTimeout(connectionTimeoutId), reset the backoff, fire(true)
TransportOpen(s) ==
    /\ s \in 1..Len(sockets) /\ sockets[s].state = "CONNECTING"
    /\ sockets' = [sockets EXCEPT ![s].state = "OPEN"]
    /\ IF sockets[s].listeners
       THEN /\ timers' = SelectSeq(timers, LAMBDA t : ~(t.kind = "connectTimeout" /\ t.n = s))
            /\ reconnectInterval' = Ticks(BaseReconnectMs)
            /\ FireStatus(<<StatusTrue>>, socket, sockets')
            /\ obs' = [obs EXCEPT !.failedAttempts = 0]
       ELSE /\ UNCHANGED <<timers, reconnectInterval, obs>>
            /\ out' = <<>> /\ wire' = <<>>
    /\ Step("TransportOpen", s)
    /\ UNCHANGED <<now, socket, initialHistoryReceived, receivingInitialHistory,
                   allReceivedCheckIns, onlineUsersCount, lastCheckInTime,
                   currentReconnectAttempt, isAuthenticated, tasks>>
    /\ UNCHANGED viewVars /\ UNCHANGED providerVars /\ Free

\* 'error': the handshake fails and the socket starts closing, its 'close'
\* following in a later callback; the handler fires false
TransportError(s) ==
    /\ s \in 1..Len(sockets) /\ sockets[s].state = "CONNECTING"
    /\ sockets' = [sockets EXCEPT ![s].state = "CLOSING"]
    /\ IF sockets[s].listeners
       THEN FireStatus(<<StatusFalse>>, socket, sockets')
       ELSE out' = <<>> /\ wire' = <<>>
    /\ Step("TransportError", s)
    /\ UNCHANGED <<now, socket, reconnectInterval, initialHistoryReceived,
                   receivingInitialHistory, allReceivedCheckIns, onlineUsersCount,
                   lastCheckInTime, currentReconnectAttempt, isAuthenticated,
                   timers, tasks, obs>>
    /\ UNCHANGED viewVars /\ UNCHANGED providerVars /\ Free

\* the delay the close handler passes to setTimeout: the interval as it is,
\* grown only by the timer's callback
CloseDelayGrown(ri) == GrowInterval(ri)

CloseDelay(ri) == ri

\* 'close' (code, reason): auth says code === 4000 || reason.includes('auth'),
\* which takes a close frame of the relay, hence an open socket
TransportClose(s, auth) ==
    /\ s \in 1..Len(sockets) /\ sockets[s].state \in {"CONNECTING", "OPEN", "CLOSING"}
    /\ auth => sockets[s].state = "OPEN"
    /\ sockets' = [sockets EXCEPT ![s].state = "CLOSED"]
    /\ IF sockets[s].listeners
       THEN /\ FireStatus(<<StatusFalse>>, socket, sockets')
            /\ IF ~auth /\ autoReconnect
               THEN /\ timers' = Arm(timers, Timer("backoff", now + CloseDelay(reconnectInterval), 0))
                    /\ obs' = [obs EXCEPT !.failedAttempts = @ + 1,
                                          !.lastDelay = CloseDelay(reconnectInterval)]
               ELSE UNCHANGED <<timers, obs>>
       ELSE /\ out' = <<>> /\ wire' = <<>>
            /\ UNCHANGED <<timers, obs>>
    /\ Step(IF auth THEN "TransportCloseAuth" ELSE "TransportClose", s)
    /\ UNCHANGED <<now, socket, reconnectInterval, initialHistoryReceived,
                   receivingInitialHistory, allReceivedCheckIns, onlineUsersCount,
                   lastCheckInTime, currentReconnectAttempt, isAuthenticated, tasks>>
    /\ UNCHANGED viewVars /\ UNCHANGED providerVars /\ Free


(***************************************************************************)
(* Timer callbacks of connect()                                            *)
(***************************************************************************)
\* the 10 s connection timeout: it looks at this.socket, whichever it is now
FireConnectTimeout(i) ==
    /\ Due(i) /\ timers[i].kind = "connectTimeout"
    /\ timers' = Remove(timers, i)
    /\ IF ReadyState(socket, sockets) = "CONNECTING"
       THEN /\ sockets' = CloseSocket(sockets, socket)
            /\ FireStatus(<<StatusFalse>>, socket, sockets')
       ELSE /\ UNCHANGED sockets
            /\ out' = <<>> /\ wire' = <<>>
    /\ Step("FireConnectTimeout", timers[i].n)
    /\ UNCHANGED <<now, socket, reconnectInterval, initialHistoryReceived,
                   receivingInitialHistory, allReceivedCheckIns, onlineUsersCount,
                   lastCheckInTime, currentReconnectAttempt, isAuthenticated, tasks, obs>>
    /\ UNCHANGED viewVars /\ UNCHANGED providerVars /\ Free

\* the close handler's timer: grow the backoff, then connect()
FireBackoff(i) ==
    /\ Due(i) /\ timers[i].kind = "backoff"
    /\ timers' = Remove(timers, i)
    /\ reconnectInterval' = GrowInterval(reconnectInterval)
    /\ connect(tasks)
    /\ FireStatus(ConnectEvents, socket, sockets)
    /\ Step("FireBackoff", timers[i].mark)
    /\ UNCHANGED <<now, allReceivedCheckIns, onlineUsersCount, lastCheckInTime,
                   currentReconnectAttempt, isAuthenticated, obs>>
    /\ UNCHANGED viewVars /\ UNCHANGED providerVars /\ Free

\* the catch blocks' timer: connect() only
FireRetry(i) ==
    /\ Due(i) /\ timers[i].kind = "retry"
    /\ timers' = Remove(timers, i)
    /\ connect(tasks)
    /\ FireStatus(ConnectEvents, socket, sockets)
    /\ Step("FireRetry", 0)
    /\ UNCHANGED <<now, reconnectInterval, allReceivedCheckIns, onlineUsersCount,
                   lastCheckInTime, currentReconnectAttempt, isAuthenticated, obs>>
    /\ UNCHANGED viewVars /\ UNCHANGED providerVars /\ Free

\* the idle timer (1 s after a new_checkin) and the ceiling timers (3 s after
\* connect() created the socket, or after requestHistory()) share one body
FireHistoryTimer(i) ==
    /\ Due(i) /\ timers[i].kind \in {"historyIdle", "historyCeiling", "historyRequest"}
    /\ IF receivingInitialHistory /\ ~initialHistoryReceived
       THEN /\ receivingInitialHistory' = FALSE
            /\ initialHistoryReceived' = TRUE
            /\ out' = <<Event("history", 0)>> \o updateViewPosts(checkIns)
            /\ ViewHistory
            /\ timers' = HistoryFired(Remove(timers, i))
            /\ tasks' = HistoryFired(tasks)
       ELSE /\ UNCHANGED <<receivingInitialHistory, initialHistoryReceived, tasks>>
            /\ out' = <<>>
            /\ UNCHANGED viewVars
            /\ timers' = Remove(timers, i)
    /\ wire' = <<>>
    /\ Step(IF timers[i].kind = "historyCeiling" THEN "FireHistoryCeiling" ELSE "FireHistoryTimer",
            timers[i].n)
    /\ UNCHANGED <<now, socket, sockets, reconnectInterval, allReceivedCheckIns,
                   onlineUsersCount, lastCheckInTime, currentReconnectAttempt,
                   isAuthenticated, obs>>
    /\ UNCHANGED providerVars /\ Free

(***************************************************************************)
(* disconnect(), dispose(), reconnect(), updateAuthStatus()                *)
(***************************************************************************)
\* disconnect() closing a connecting socket only
DisconnectClosesConnecting == ReadyState(socket, sockets) = "CONNECTING"

\* the socket list and this.socket that disconnect() leaves
DisconnectCloses == ReadyState(socket, sockets) \in {"CONNECTING", "OPEN", "CLOSING"}

disconnect ==
    /\ sockets' = IF DisconnectCloses THEN CloseSocket(sockets, socket) ELSE sockets
    /\ socket' = IF DisconnectCloses THEN 0 ELSE socket
    /\ FireStatus(<<StatusFalse>>, socket', sockets')

Disconnect ==
    /\ disconnect
    /\ Step("Disconnect", socket)
    /\ UNCHANGED <<now, reconnectInterval, initialHistoryReceived, receivingInitialHistory,
                   allReceivedCheckIns, onlineUsersCount, lastCheckInTime,
                   currentReconnectAttempt, isAuthenticated, timers, tasks, obs>>
    /\ UNCHANGED viewVars /\ UNCHANGED providerVars /\ Spend

Dispose ==
    /\ sockets' = IF socket # 0 THEN CloseSocket(sockets, socket) ELSE sockets
    /\ socket' = 0
    /\ out' = <<>> /\ wire' = <<>>
    /\ Step("Dispose", socket)
    /\ UNCHANGED <<now, reconnectInterval, initialHistoryReceived, receivingInitialHistory,
                   allReceivedCheckIns, onlineUsersCount, lastCheckInTime,
                   currentReconnectAttempt, isAuthenticated, timers, tasks, obs>>
    /\ UNCHANGED viewVars /\ UNCHANGED providerVars /\ Spend

\* no settle delay: performConnect in the same turn of the event loop
SettleDueAtOnce == now

\* the deadline of setTimeout(performConnect, 1000); the settle timer's mark
\* is the socket reconnect() disconnected
SettleDue == now + Ticks(SettleDelayMs)

\* history annotation: reconnect() was called while these backoff timers pend
Superseded(tm) ==
    [j \in 1..Len(tm) |-> IF tm[j].kind = "backoff" THEN [tm[j] EXCEPT !.mark = 1] ELSE tm[j]]

\* performConnect: register the attempt under Date.now() and arm its timer
performConnect(tm) ==
    /\ currentReconnectAttempt' = DateNow
    /\ timers' = Arm(tm, [Timer("attempt", now + Ticks(ReconnectDelayMs), DateNow)
                            EXCEPT !.mark = Len(obs.attemptIds) + 1])
    /\ obs' = [obs EXCEPT !.attemptIds = Append(@, DateNow)]

Reconnect ==
    /\ IF ReadyState(socket, sockets) \in {"CONNECTING", "OPEN", "CLOSING"}
       THEN /\ disconnect
            /\ timers' = Arm(Superseded(timers),
                             [Timer("settle", SettleDue, 0) EXCEPT !.mark = socket])
            /\ UNCHANGED <<currentReconnectAttempt, obs>>
       ELSE /\ performConnect(Superseded(timers))
            /\ out' = <<>> /\ wire' = <<>>
            /\ UNCHANGED <<socket, sockets>>
    /\ Step("Reconnect", 0)
    /\ UNCHANGED <<now, reconnectInterval, initialHistoryReceived, receivingInitialHistory,
                   allReceivedCheckIns, onlineUsersCount, lastCheckInTime,
                   isAuthenticated, tasks>>
    /\ UNCHANGED viewVars /\ UNCHANGED providerVars /\ Spend

\* setTimeout(performConnect, 1000) of reconnect()
FireSettle(i) ==
    /\ Due(i) /\ timers[i].kind = "settle"
    /\ performConnect(Remove(timers, i))
    /\ out' = <<>> /\ wire' = <<>>
    /\ Step("FireSettle", timers[i].mark)
    /\ UNCHANGED <<now, socket, sockets, reconnectInterval, initialHistoryReceived,
                   receivingInitialHistory, allReceivedCheckIns, onlineUsersCount,
                   lastCheckInTime, isAuthenticated, tasks>>
    /\ UNCHANGED viewVars /\ UNCHANGED providerVars /\ Free

\* the 500 ms timer of performConnect: connect() if still the current attempt
FireAttempt(i) ==
    /\ Due(i) /\ timers[i].kind = "attempt"
    /\ timers' = Remove(timers, i)
    /\ IF currentReconnectAttempt = timers[i].n
       THEN /\ connect(tasks)
            /\ FireStatus(ConnectEvents, socket, sockets)
            /\ UNCHANGED obs
            /\ Step("FireAttemptConnect", timers[i].mark)
       ELSE /\ UNCHANGED <<socket, sockets, initialHistoryReceived,
                           receivingInitialHistory, tasks, obs>>
            /\ out' = <<>> /\ wire' = <<>>
            /\ Step("FireAttemptStale", timers[i].mark)
    /\ UNCHANGED <<now, reconnectInterval, allReceivedCheckIns, onlineUsersCount,
                   lastCheckInTime, currentReconnectAttempt, isAuthenticated>>
    /\ UNCHANGED viewVars /\ UNCHANGED providerVars /\ Free

UpdateAuthStatus(b) ==
    /\ isAuthenticated' = b
    /\ IF b
       THEN IF ~isConnected /\ autoReconnect
            THEN /\ connect(tasks)
                 /\ FireStatus(ConnectEvents, socket, sockets)
            ELSE /\ UNCHANGED <<socket, sockets, initialHistoryReceived,
                                receivingInitialHistory, tasks>>
                 /\ out' = <<>> /\ wire' = <<>>
       ELSE /\ IF isConnected
               THEN disconnect
               ELSE /\ UNCHANGED <<socket, sockets>>
                    /\ out' = <<>> /\ wire' = <<>>
            /\ UNCHANGED <<initialHistoryReceived, receivingInitialHistory, tasks>>
    /\ Step("UpdateAuthStatus", IF b THEN 1 ELSE 0)
    /\ UNCHANGED <<now, reconnectInterval, allReceivedCheckIns, onlineUsersCount,
                   lastCheckInTime, currentReconnectAttempt, timers, obs>>
    /\ UNCHANGED viewVars /\ UNCHANGED providerVars /\ Spend


(***************************************************************************)
(* Inbound messages                                                        *)
(***************************************************************************)
\* the 'message' handler on a new_checkin: store it, restart the idle timer of
\* this socket while the initial history is being received, fire the event
ReceiveCheckIn(s, c) ==
    /\ s \in 1..Len(sockets) /\ sockets[s].state = "OPEN" /\ sockets[s].listeners
    /\ allReceivedCheckIns' = storeCheckIn(allReceivedCheckIns, c)
    /\ timers' = IF receivingInitialHistory
                 THEN Arm(SelectSeq(timers, LAMBDA t : ~(t.kind = "historyIdle" /\ t.n = s)),
                          Timer("historyIdle", now + Ticks(HistoryIdleMs), s))
                 ELSE timers
    /\ ViewReceives(c, <<>>)
    /\ wire' = <<>>
    /\ Step("ReceiveCheckIn", s)
    /\ UNCHANGED <<now, socket, sockets, reconnectInterval, initialHistoryReceived,
                   receivingInitialHistory, onlineUsersCount, lastCheckInTime,
                   currentReconnectAttempt, isAuthenticated, tasks>>
    /\ obs' = NoteShown(NoteStored(obs, c), c)
    /\ UNCHANGED providerVars /\ Spend

\* the 'message' handler on an online_users message
ReceiveOnlineUsers(s, count) ==
    /\ s \in 1..Len(sockets) /\ sockets[s].state = "OPEN" /\ sockets[s].listeners
    /\ onlineUsersCount' = count
    /\ out' = <<Event("online", count)>> /\ wire' = <<>>
    /\ Step("ReceiveOnlineUsers", s)
    /\ UNCHANGED <<now, socket, sockets, reconnectInterval, initialHistoryReceived,
                   receivingInitialHistory, allReceivedCheckIns, lastCheckInTime,
                   currentReconnectAttempt, isAuthenticated, timers, tasks, obs>>
    /\ UNCHANGED viewVars /\ UNCHANGED providerVars /\ Spend

\* payloads the relay may send that are not new_checkin or online_users
\* messages: text that is not JSON, the JSON value null, a message of a type
\* the client does not know, and a server error message
OtherPayloads ==
    <<[json |-> FALSE, object |-> FALSE, type |-> ""],
      [json |-> TRUE, object |-> FALSE, type |-> ""],
      [json |-> TRUE, object |-> TRUE, type |-> "history_end"],
      [json |-> TRUE, object |-> TRUE, type |-> "error"]>>

\* JSON.parse(data.toString()) and the read of message.type: "throw" when the
\* text does not parse or the value has no properties to read
ParseType(p) == IF p.json /\ p.object THEN p.type ELSE "throw"

\* a handler whose exception escapes and ends the connection
AfterHandlerUncaught(socks, s, t) == IF t = "throw" THEN CloseSocket(socks, s) ELSE socks

\* the sockets after the handler has run on a payload of parsed type t: the
\* try/catch keeps the exception inside the handler
AfterHandler(socks, s, t) == socks

\* the 'message' handler on any other payload: no branch of the handler
\* applies, or the parse error is caught and logged
ReceiveOther(s, k) ==
    /\ s \in 1..Len(sockets) /\ sockets[s].state = "OPEN" /\ sockets[s].listeners
    /\ k \in 1..Len(OtherPayloads)
    /\ ParseType(OtherPayloads[k]) \notin {"new_checkin", "online_users"}
    /\ sockets' = AfterHandler(sockets, s, ParseType(OtherPayloads[k]))
    /\ out' = <<>> /\ wire' = <<>>
    /\ Step("ReceiveOther", k)
    /\ UNCHANGED <<now, socket, reconnectInterval, initialHistoryReceived,
                   receivingInitialHistory, allReceivedCheckIns, onlineUsersCount,
                   lastCheckInTime, currentReconnectAttempt, isAuthenticated,
                   timers, tasks, obs>>
    /\ UNCHANGED viewVars /\ UNCHANGED providerVars /\ Spend

(***************************************************************************)
(* sendCheckIn and the cooldown                                            *)
(***************************************************************************)
\* sendCheckIn(username, tags, message): refused on cooldown, else the token
\* fetch starts; the task keeps the arguments
SendCheckIn(u, m) ==
    /\ IF ~canCheckIn
       THEN /\ UNCHANGED tasks
            /\ Step("SendCheckInRefused", 0)
       ELSE /\ tasks' = Append(tasks, Task("send",
                                        [username |-> u, timestamp |-> 0, message |-> m]))
            /\ Step("SendCheckIn", 0)
    /\ out' = <<>> /\ wire' = <<>>
    /\ UNCHANGED <<now, timers, obs>>
    /\ UNCHANGED clientVars /\ UNCHANGED viewVars /\ UNCHANGED providerVars /\ Spend

\* startCooldownTimer(): the event it fires at once and the interval it arms
startCooldownEvents(t, lastTime) ==
    IF getRemainingCooldownTimeAt(t, lastTime) <= 0 THEN <<>>
    ELSE <<Event("cooldown", getRemainingCooldownTimeAt(t, lastTime))>>

startCooldownTimer(tm, t, lastTime) ==
    IF getRemainingCooldownTimeAt(t, lastTime) <= 0 THEN tm
    ELSE Arm(tm, Timer("cooldown", now + Ticks(CooldownTickMs), 0))

\* what getAuthToken() may resolve to: the access token of a GitHub session,
\* or undefined without one
SessionToken == "gho_session"

Tokens == {SessionToken, "gho_other", "undefined"}

\* config.signing.secret
SigningSecret == "signing.secret"

\* the tags and the random snippet of a submission, and the avatar URL
\* sendCheckIn derives from the username
NoTags == <<>>

RandomSnippet == <<"snippet">>

AvatarUrl(username) == <<"https://github.com/", username, ".png">>

\* the CheckInMessage sendCheckIn builds for the check-in c
checkInMessage(c) ==
    [type |-> "checkin", username |-> c.username, tags |-> NoTags,
     message |-> c.message, timestamp |-> c.timestamp,
     avatarUrl |-> AvatarUrl(c.username), snippet |-> RandomSnippet]

\* a clean message that leaves the text of the check-in out
cleanMessageBare(message) ==
    <<<<"type", message.type>>, <<"username", message.username>>,
      <<"tags", message.tags>>, <<"timestamp", message.timestamp>>,
      <<"avatarUrl", message.avatarUrl>>, <<"snippet", message.snippet>>>>

\* JSON.stringify(cleanMessage): the fields signMessage copies, in the order
\* it writes them
cleanMessage(message) ==
    <<<<"type", message.type>>, <<"username", message.username>>,
      <<"tags", message.tags>>, <<"message", message.message>>,
      <<"timestamp", message.timestamp>>, <<"avatarUrl", message.avatarUrl>>,
      <<"snippet", message.snippet>>>>

\* crypto.createHmac('sha256', key).update(data).digest('hex'): the digest is
\* named by what went into it
Hmac(key, data) == [key |-> key, data |-> data]

\* signMessage(message): dataToSign is the JSON followed by the decimal
\* Date.now()
signMessage(message) ==
    LET timestamp == DateNow IN
    [signature |-> Hmac(SigningSecret, <<cleanMessage(message), timestamp>>),
     timestamp |-> timestamp]

\* a continuation that writes whatever the socket's state
checkInWriteAlways(open, messageToSend) == <<messageToSend>>

\* socket.send(JSON.stringify(messageToSend)) behind the readyState test of the
\* continuation: nothing is written unless the socket is OPEN
checkInWrite(open, messageToSend) == IF open THEN <<messageToSend>> ELSE <<>>

\* the continuation of sendCheckIn after getAuthToken(): write the checkin if
\* the socket is open, else simulateCheckInResponse; either way store the local
\* copy, arm its 500 ms echo, set lastCheckInTime and start the cooldown
SendTokenResolved(i, token) ==
    /\ i \in 1..Len(tasks) /\ tasks[i].kind = "send"
    /\ LET localUpdate == [username |-> tasks[i].c.username,
                           timestamp |-> DateNow,
                           message |-> Truncate(tasks[i].c.message)]
           signed == signMessage(checkInMessage(localUpdate))
           open == ReadyState(socket, sockets) = "OPEN"
       IN  /\ tasks' = Remove(tasks, i)
           /\ wire' = checkInWrite(open,
                          [sock |-> socket, type |-> "checkin", c |-> localUpdate,
                           token |-> token,
                           signature |-> signed.signature,
                           signatureTimestamp |-> signed.timestamp])
           /\ obs' = NoteStored(IF open THEN [obs EXCEPT !.checkinWrites = Append(@, DateNow)]
                                         ELSE obs,
                                 localUpdate)
           /\ allReceivedCheckIns' = storeCheckIn(allReceivedCheckIns, localUpdate)
           /\ lastCheckInTime' = DateNow
           /\ timers' = startCooldownTimer(
                            Arm(timers, MsgTimer("echo", now + Ticks(EchoDelayMs), localUpdate)),
                            DateNow, DateNow)
           /\ out' = startCooldownEvents(DateNow, DateNow)
           /\ Step(IF open THEN "SendTokenDone" ELSE "SendSimulated", 0)
    /\ UNCHANGED <<now, socket, sockets, reconnectInterval, initialHistoryReceived,
                   receivingInitialHistory, onlineUsersCount, currentReconnectAttempt,
                   isAuthenticated>>
    /\ UNCHANGED viewVars /\ UNCHANGED providerVars /\ Free

\* the continuation with the token of the signed-in session
SendTokenDone(i) == SendTokenResolved(i, SessionToken)

\* the 500 ms timer of the local echo: fire the message event
FireEcho(i) ==
    /\ Due(i) /\ timers[i].kind = "echo"
    /\ timers' = Remove(timers, i)
    /\ ViewReceives(timers[i].msg, <<>>)
    /\ wire' = <<>>
    /\ obs' = NoteShown(obs, timers[i].msg)
    /\ Step("FireEcho", 0)
    /\ UNCHANGED <<now, tasks>> /\ UNCHANGED clientVars /\ UNCHANGED providerVars /\ Free

\* the 1 s interval of startCooldownTimer: fire the remaining time, stop at 0
FireCooldownTick(i) ==
    /\ Due(i) /\ timers[i].kind = "cooldown"
    /\ out' = <<Event("cooldown", getRemainingCooldownTime)>>
    /\ timers' = IF getRemainingCooldownTime <= 0
                 THEN Remove(timers, i)
                 ELSE Arm(Remove(timers, i),
                          Timer("cooldown", timers[i].due + Ticks(CooldownTickMs), 0))
    /\ wire' = <<>>
    /\ Step("FireCooldownTick", 0)
    /\ UNCHANGED <<now, tasks, obs>> /\ UNCHANGED clientVars /\ UNCHANGED viewVars /\ UNCHANGED providerVars /\ Free

(***************************************************************************)
(* The constructor's autoConnect branch and simulateData()                 *)
(***************************************************************************)
SimFallbackMs == 5000

SimStaggerMs == 500

SimAgeStepMs == 60000

RECURSIVE ArmSamples(_, _)
ArmSamples(tm, index) ==
    IF index >= Len(SampleData) THEN tm
    ELSE ArmSamples(Arm(tm, Timer("sim", now + Ticks(index * SimStaggerMs), index)), index + 1)

\* the constructor's 5 s timer: simulateData() unless the socket is open; it
\* sets the online count, arms one timer per sample and fires status true
FireSimFallback(i) ==
    /\ Due(i) /\ timers[i].kind = "simFallback"
    /\ IF ReadyState(socket, sockets) # "OPEN"
       THEN /\ onlineUsersCount' = Len(SampleData)
            /\ timers' = ArmSamples(Remove(timers, i), 0)
            /\ out' = <<Event("online", Len(SampleData)), StatusTrue>>
       ELSE /\ timers' = Remove(timers, i)
            /\ out' = <<>>
            /\ UNCHANGED onlineUsersCount
    /\ wire' = <<>>
    /\ Step("FireSimFallback", 0)
    /\ UNCHANGED <<now, socket, sockets, reconnectInterval, initialHistoryReceived,
                   receivingInitialHistory, allReceivedCheckIns, lastCheckInTime,
                   currentReconnectAttempt, isAuthenticated, tasks, obs>>
    /\ UNCHANGED viewVars /\ UNCHANGED providerVars /\ Free

\* the timer of one sample: store it, fire the message event and, after the
\* last sample, set initialHistoryReceived and fire the history event
FireSim(i) ==
    /\ Due(i) /\ timers[i].kind = "sim"
    /\ LET index == timers[i].n
           c == [username |-> SampleData[index + 1],
                 timestamp |-> DateNow - index * SimAgeStepMs,
                 message |-> SampleMessage]
           v == addCheckIn(ViewState, c)
           isLast == index = Len(SampleData) - 1
       IN  /\ timers' = IF isLast THEN HistoryFired(Remove(timers, i)) ELSE Remove(timers, i)
           /\ tasks' = IF isLast THEN HistoryFired(tasks) ELSE tasks
           /\ allReceivedCheckIns' = storeCheckIn(allReceivedCheckIns, c)
           /\ checkIns' = v.checkIns
           /\ newCheckInsCount' = v.count
           /\ pendingCheckIns' = IF isLast THEN updateView(v.checkIns, v.pending) ELSE v.pending
           /\ initialHistoryReceived' = IF isLast THEN TRUE ELSE initialHistoryReceived
           /\ out' = <<Event("message", c.timestamp)>> \o v.fired
                        \o (IF isLast THEN <<Event("history", 0)>> \o updateViewPosts(v.checkIns)
                            ELSE <<>>)
           /\ obs' = NoteShown(NoteStored(obs, c), c)
           /\ Step("FireSim", index)
    /\ wire' = <<>>
    /\ UNCHANGED <<now, socket, sockets, reconnectInterval, receivingInitialHistory,
                   onlineUsersCount, lastCheckInTime, currentReconnectAttempt,
                   isAuthenticated>>
    /\ UNCHANGED <<webviewReady, readyMessageReceived, hasView, viewVisible>>
    /\ UNCHANGED providerVars /\ Free

(***************************************************************************)
(* The webview of SecondaryCheckInView                                     *)
(***************************************************************************)
\* a request timer one idle window late
RequestTimerLate == Timer("historyRequest", now + Ticks(HistoryCeilingMs + HistoryIdleMs), 0)

\* the 3 s timer requestHistory() arms after its history_request
RequestTimer == Timer("historyRequest", now + Ticks(HistoryCeilingMs), 0)

\* requestHistory(): ask the open socket and arm the 3 s ceiling, or report the
\* history as received at once
requestHistory ==
    /\ receivingInitialHistory' = TRUE
    /\ IF ReadyState(socket, sockets) = "OPEN"
       THEN /\ initialHistoryReceived' = FALSE
            /\ wire' = <<[sock |-> socket, type |-> "history_request", c |-> NoCheckIn]>>
            /\ timers' = Arm(timers, RequestTimer)
            /\ out' = <<>>
            /\ UNCHANGED pendingCheckIns
       ELSE /\ initialHistoryReceived' = TRUE
            /\ wire' = <<>>
            /\ timers' = HistoryFired(timers)
            /\ out' = <<Event("history", 0)>> \o updateViewPosts(checkIns)
            /\ pendingCheckIns' = updateView(checkIns, pendingCheckIns)

\* resolveWebviewView: the view exists and is shown, not yet ready; the 3 s
\* fallback is armed and the seeding from getAllCheckIns() awaits the username
ResolveWebviewView ==
    /\ hasView' = TRUE /\ viewVisible' = TRUE
    /\ webviewReady' = FALSE
    /\ readyMessageReceived' = FALSE
    /\ newCheckInsCount' = 0
    /\ timers' = Arm(timers, Timer("viewFallback", now + Ticks(HistoryCeilingMs), 0))
    /\ tasks' = Append(tasks, Task("viewSeed", NoCheckIn))
    /\ out' = <<>> /\ wire' = <<>>
    /\ Step("ResolveWebviewView", 0)
    /\ UNCHANGED <<checkIns, pendingCheckIns, now, obs>>
    /\ UNCHANGED clientVars /\ UNCHANGED providerVars /\ Spend

\* getAuthenticatedGitHubUsername() resolved in resolveWebviewView: when signed
\* in, every check-in the client holds goes through addCheckIn
ViewSeedDone(i, signedIn) ==
    /\ i \in 1..Len(tasks) /\ tasks[i].kind = "viewSeed"
    /\ tasks' = Remove(tasks, i)
    /\ LET v == IF signedIn THEN addAll(ViewState, allReceivedCheckIns) ELSE ViewState IN
          /\ checkIns' = v.checkIns
          /\ pendingCheckIns' = v.pending
          /\ newCheckInsCount' = v.count
          /\ out' = v.fired
    /\ wire' = <<>>
    /\ obs' = IF signedIn THEN NoteShownAll(obs, allReceivedCheckIns) ELSE obs
    /\ Step("ViewSeedDone", IF signedIn THEN 1 ELSE 0)
    /\ UNCHANGED <<webviewReady, readyMessageReceived, hasView, viewVisible, now, timers>>
    /\ UNCHANGED clientVars /\ UNCHANGED providerVars /\ Free

\* the webview's 'ready' message
WebviewReady ==
    /\ hasView /\ ~readyMessageReceived
    /\ webviewReady' = TRUE
    /\ readyMessageReceived' = TRUE
    /\ tasks' = Append(tasks, Task("viewReady", NoCheckIn))
    /\ out' = <<>> /\ wire' = <<>>
    /\ Step("WebviewReady", 0)
    /\ UNCHANGED <<checkIns, pendingCheckIns, hasView, viewVisible, newCheckInsCount,
                   now, timers, obs>>
    /\ UNCHANGED clientVars /\ UNCHANGED providerVars /\ Spend

\* the 3 s fallback of resolveWebviewView: mark the webview ready if no 'ready'
\* message came
FireViewFallback(i) ==
    /\ Due(i) /\ timers[i].kind = "viewFallback"
    /\ timers' = Remove(timers, i)
    /\ IF ~readyMessageReceived
       THEN /\ webviewReady' = TRUE
            /\ tasks' = Append(tasks, Task("viewReady", NoCheckIn))
       ELSE UNCHANGED <<webviewReady, tasks>>
    /\ out' = <<>> /\ wire' = <<>>
    /\ Step("FireViewFallback", 0)
    /\ UNCHANGED <<checkIns, pendingCheckIns, readyMessageReceived, hasView, viewVisible,
                   newCheckInsCount, now, obs>>
    /\ UNCHANGED clientVars /\ UNCHANGED providerVars /\ Free

\* the username resolved after 'ready' or the fallback: updateView() when
\* check-ins are held, else requestHistory()
ViewReadyDone(i, signedIn) ==
    /\ i \in 1..Len(tasks) /\ tasks[i].kind = "viewReady"
    /\ tasks' = IF signedIn /\ Len(checkIns) = 0 /\ ReadyState(socket, sockets) # "OPEN"
                THEN HistoryFired(Remove(tasks, i)) ELSE Remove(tasks, i)
    /\ IF signedIn /\ Len(checkIns) > 0
       THEN /\ pendingCheckIns' = updateView(checkIns, pendingCheckIns)
            /\ out' = updateViewPosts(checkIns)
            /\ wire' = <<>>
            /\ UNCHANGED <<timers, initialHistoryReceived, receivingInitialHistory>>
       ELSE IF signedIn
            THEN requestHistory
            ELSE /\ out' = <<>> /\ wire' = <<>>
                 /\ UNCHANGED <<pendingCheckIns, timers, initialHistoryReceived,
                                receivingInitialHistory>>
    /\ Step("ViewReadyDone", IF signedIn THEN 1 ELSE 0)
    /\ UNCHANGED <<checkIns, webviewReady, readyMessageReceived, hasView, viewVisible,
                   newCheckInsCount, now, obs>>
    /\ UNCHANGED <<socket, sockets, reconnectInterval, allReceivedCheckIns, onlineUsersCount,
                   lastCheckInTime, currentReconnectAttempt, isAuthenticated>>
    /\ UNCHANGED providerVars /\ Free

\* the view is hidden or shown again (onDidChangeVisibility resets the counter)
ChangeVisibility ==
    /\ hasView
    /\ viewVisible' = ~viewVisible
    /\ newCheckInsCount' = IF viewVisible' THEN 0 ELSE newCheckInsCount
    /\ out' = <<>> /\ wire' = <<>>
    /\ Step("ChangeVisibility", 0)
    /\ UNCHANGED <<checkIns, pendingCheckIns, webviewReady, readyMessageReceived, hasView,
                   now, timers, tasks, obs>>
    /\ UNCHANGED clientVars /\ UNCHANGED providerVars /\ Spend

\* the view's 2 s interval, at the instants where it has something to do
PendingRetryDue == (now - Ticks(StartMs)) % Ticks(PendingRetryMs) = 0

PendingRetryArmed == webviewReady /\ Len(pendingCheckIns) > 0

FirePendingRetry ==
    /\ PendingRetryDue /\ PendingRetryArmed
    /\ LET v == addAll([ViewState EXCEPT !.pending = <<>>], pendingCheckIns) IN
          /\ checkIns' = v.checkIns
          /\ pendingCheckIns' = v.pending
          /\ newCheckInsCount' = v.count
          /\ out' = v.fired
    /\ wire' = <<>>
    /\ obs' = NoteShownAll(obs, pendingCheckIns)
    /\ Step("FirePendingRetry", 0)
    /\ UNCHANGED <<webviewReady, readyMessageReceived, hasView, viewVisible,
                   now, timers, tasks>>
    /\ UNCHANGED clientVars /\ UNCHANGED providerVars /\ Free

(***************************************************************************)
(* The clock                                                               *)
(***************************************************************************)
\* Time passes: to the deadline of the next pending timer, which then fires.
\* A token fetch takes less time than that: it resolves before the clock moves.
NextPendingRetry == now + Ticks(PendingRetryMs) - ((now - Ticks(StartMs)) % Ticks(PendingRetryMs))

Deadlines ==
    {timers[i].due : i \in 1..Len(timers)}
        \cup (IF PendingRetryArmed THEN {NextPendingRetry} ELSE {})

Advance ==
    /\ tasks = <<>>
    /\ \E t \in Deadlines :
          /\ t > now /\ t <= horizon
          /\ \A d \in Deadlines : d >= t
          /\ now' = t
    /\ out' = <<>> /\ wire' = <<>>
    /\ Step("Advance", 0)
    /\ UNCHANGED <<timers, tasks, obs>>
    /\ UNCHANGED clientVars /\ UNCHANGED viewVars /\ UNCHANGED providerVars /\ Free

\* nothing is pending: the program sits idle for a while (an idle period
\* counts as one of the run's external stimuli)
IdleStepMs == 1000

Idle ==
    /\ tasks = <<>> /\ Deadlines = {}
    /\ now + Ticks(IdleStepMs) <= horizon
    /\ now' = now + Ticks(IdleStepMs)
    /\ out' = <<>> /\ wire' = <<>>
    /\ Step("Idle", 0)
    /\ UNCHANGED <<timers, tasks, obs>>
    /\ UNCHANGED clientVars /\ UNCHANGED viewVars /\ UNCHANGED providerVars /\ Spend

\* the relay of an open socket is silent for ms milliseconds and no timer
\* comes due meanwhile
Elapse(ms) ==
    /\ tasks = <<>>
    /\ \E s \in 1..Len(sockets) : sockets[s].state = "OPEN" /\ sockets[s].listeners
    /\ \A d \in Deadlines : now + Ticks(ms) < d
    /\ now + Ticks(ms) <= horizon
    /\ now' = now + Ticks(ms)
    /\ out' = <<>> /\ wire' = <<>>
    /\ Step("Elapse", 0)
    /\ UNCHANGED <<timers, tasks, obs>>
    /\ UNCHANGED clientVars /\ UNCHANGED viewVars /\ UNCHANGED providerVars /\ Free

(***************************************************************************)
(* Initial state: new WebSocketClient(url, extensionUri, false) and a      *)
(* SecondaryCheckInView whose webview has not been resolved                *)
(***************************************************************************)
InitObs == [failedAttempts |-> 0, lastDelay |-> 0, attemptIds |-> <<>>,
            checkinWrites |-> <<>>,
            maxStored |-> [u \in AllUsers |-> 0], maxShown |-> [u \in AllUsers |-> 0],
            stored |-> 0, shown |-> 0, lateStored |-> 0, lateShown |-> 0]

\* no editor is visible and no file has been edited
InitTracker ==
    /\ visibleEditors = <<>>
    /\ recentFiles = <<>>
    /\ fileAdds = <<>>

\* no CheckInProvider or LargerAvatarsProvider holds a check-in
InitProviders ==
    /\ providerCheckIns = <<>>
    /\ avatarsCheckIns = <<>>
    /\ insertedUsernames = {}
    /\ InitTracker

InitView ==
    /\ checkIns = <<>>
    /\ pendingCheckIns = <<>>
    /\ webviewReady = FALSE
    /\ readyMessageReceived = FALSE
    /\ hasView = FALSE
    /\ viewVisible = FALSE
    /\ newCheckInsCount = 0

InitProgram ==
    /\ now = Ticks(StartMs)
    /\ socket = 0
    /\ sockets = <<>>
    /\ reconnectInterval = Ticks(BaseReconnectMs)
    /\ initialHistoryReceived = FALSE
    /\ receivingInitialHistory = FALSE
    /\ allReceivedCheckIns = <<>>
    /\ onlineUsersCount = 0
    /\ lastCheckInTime = 0
    /\ currentReconnectAttempt = 0
    /\ isAuthenticated = TRUE
    /\ timers = <<>>
    /\ tasks = <<>>
    /\ InitView
    /\ InitProviders
    /\ out = <<>>
    /\ wire = <<>>
    /\ last = [name |-> "Init", n |-> 0]
    /\ obs = InitObs

\* the state once connect() has run, the token fetch has resolved and the
\* socket has opened, all at the first instant
InitOnline ==
    /\ now = Ticks(StartMs)
    /\ socket = 1
    /\ sockets = <<[state |-> "OPEN", listeners |-> TRUE]>>
    /\ reconnectInterval = Ticks(BaseReconnectMs)
    /\ initialHistoryReceived = FALSE
    /\ receivingInitialHistory = TRUE
    /\ allReceivedCheckIns = <<>>
    /\ onlineUsersCount = 0
    /\ lastCheckInTime = 0
    /\ currentReconnectAttempt = 0
    /\ isAuthenticated = TRUE
    /\ timers = <<CeilingTimer(1, 0)>>
    /\ tasks = <<>>
    /\ InitView
    /\ InitProviders
    /\ out = <<StatusTrue>>
    /\ wire = RequestOnlineUsersWire(1, sockets)
    /\ last = [name |-> "TransportOpen", n |-> 1]
    /\ obs = InitObs

(***************************************************************************)
(* The connection state machine                                            *)
(***************************************************************************)
MaxCallsConn == 2

MaxTimeConnMs == 5600

InitConn ==
    /\ InitProgram
    /\ budget = MaxCallsConn
    /\ horizon = Ticks(StartMs + MaxTimeConnMs)

NextConn ==
    \/ Reconnect
    \/ Disconnect
    \/ Dispose
    \/ \E b \in BOOLEAN : UpdateAuthStatus(b)
    \/ \E i \in 1..Len(tasks) : ConnectTokenDone(i)
    \/ \E i \in 1..Len(tasks) : ConnectConstructError(i)
    \/ \E s \in 1..Len(sockets) : TransportOpen(s)
    \/ \E s \in 1..Len(sockets) : TransportError(s)
    \/ \E s \in 1..Len(sockets), auth \in BOOLEAN : TransportClose(s, auth)
    \/ \E i \in 1..Len(timers) : FireBackoff(i)
    \/ \E i \in 1..Len(timers) : FireRetry(i)
    \/ \E i \in 1..Len(timers) : FireHistoryTimer(i)
    \/ \E i \in 1..Len(timers) : FireSettle(i)
    \/ \E i \in 1..Len(timers) : FireAttempt(i)
    \/ Advance

SpecConn == InitConn /\ [][NextConn]_vars

(***************************************************************************)
(* The check-in buffers: an open connection, the relay's messages, the     *)
(* user's submissions and the webview's life cycle                         *)
(***************************************************************************)
MaxCallsBuf == 3

MaxTimeBufMs == 3000

InitBuf ==
    /\ InitOnline
    /\ budget = MaxCallsBuf
    /\ horizon = Ticks(StartMs + MaxTimeBufMs)

NextBuf ==
    \/ \E s \in 1..Len(sockets), u \in Users, t \in RelayTimestamps :
          ReceiveCheckIn(s, [username |-> u, timestamp |-> t, message |-> RelayMessage])
    \/ \E s \in 1..Len(sockets) : ReceiveOnlineUsers(s, 1)
    \/ \E m \in SentMessages : SendCheckIn(LocalUser, m)
    \/ \E i \in 1..Len(tasks) : SendTokenDone(i)
    \/ \E i \in 1..Len(timers) : FireEcho(i)
    \/ \E i \in 1..Len(timers) : FireCooldownTick(i)
    \/ \E i \in 1..Len(timers) : FireHistoryTimer(i)
    \/ ResolveWebviewView
    \/ \E i \in 1..Len(tasks), signedIn \in BOOLEAN : ViewSeedDone(i, signedIn)
    \/ WebviewReady
    \/ \E i \in 1..Len(timers) : FireViewFallback(i)
    \/ \E i \in 1..Len(tasks), signedIn \in BOOLEAN : ViewReadyDone(i, signedIn)
    \/ ChangeVisibility
    \/ FirePendingRetry
    \/ Dispose
    \/ Advance

SpecBuf == InitBuf /\ [][NextBuf]_vars

(***************************************************************************)
(* The cooldown gate over more than one cooldown period                    *)
(***************************************************************************)
MaxCallsCool == 3

MaxTimeCoolMs == 602000

InitCool ==
    /\ InitOnline
    /\ budget = MaxCallsCool
    /\ horizon = Ticks(StartMs + MaxTimeCoolMs)

NextCool ==
    \/ \E m \in SentMessages : SendCheckIn(LocalUser, m)
    \/ \E i \in 1..Len(tasks) : SendTokenDone(i)
    \/ \E i \in 1..Len(timers) : FireEcho(i)
    \/ \E i \in 1..Len(timers) : FireCooldownTick(i)
    \/ \E i \in 1..Len(timers) : FireHistoryTimer(i)
    \/ Dispose
    \/ Advance
    \/ Idle

SpecCool == InitCool /\ [][NextCool]_vars



(***************************************************************************)
(* The connect-timeout: connections that stay CONNECTING for 10 s          *)
(***************************************************************************)
MaxCallsTimeout == 2

MaxTimeTimeoutMs == 10000

InitTimeout ==
    /\ InitProgram
    /\ budget = MaxCallsTimeout
    /\ horizon = Ticks(StartMs + MaxTimeTimeoutMs)

NextTimeout ==
    \/ \E b \in BOOLEAN : UpdateAuthStatus(b)
    \/ \E i \in 1..Len(tasks) : ConnectTokenDone(i)
    \/ \E s \in 1..Len(sockets) : TransportOpen(s)
    \/ \E s \in 1..Len(sockets) : TransportClose(s, FALSE)
    \/ \E i \in 1..Len(timers) : FireConnectTimeout(i)
    \/ \E i \in 1..Len(timers) : FireBackoff(i)
    \/ \E i \in 1..Len(timers) : FireHistoryTimer(i)
    \/ Advance

SpecTimeout == InitTimeout /\ [][NextTimeout]_vars

(***************************************************************************)
(* new WebSocketClient(url, extensionUri, true): connect() at construction *)
(* and the simulated data after 5 s without an open socket                 *)
(***************************************************************************)
MaxCallsAuto == 1

MaxTimeAutoMs == 7000

InitAuto ==
    /\ now = Ticks(StartMs)
    /\ socket = 0
    /\ sockets = <<>>
    /\ reconnectInterval = Ticks(BaseReconnectMs)
    /\ initialHistoryReceived = FALSE
    /\ receivingInitialHistory = TRUE
    /\ allReceivedCheckIns = <<>>
    /\ onlineUsersCount = 0
    /\ lastCheckInTime = 0
    /\ currentReconnectAttempt = 0
    /\ isAuthenticated = TRUE
    /\ timers = <<Timer("simFallback", Ticks(StartMs + SimFallbackMs), 0)>>
    /\ tasks = <<Task("connect", NoCheckIn)>>
    /\ InitView
    /\ InitProviders
    /\ out = <<>>
    /\ wire = <<>>
    /\ last = [name |-> "Init", n |-> 0]
    /\ obs = InitObs
    /\ budget = MaxCallsAuto
    /\ horizon = Ticks(StartMs + MaxTimeAutoMs)

NextAuto ==
    \/ \E i \in 1..Len(tasks) : ConnectTokenDone(i)
    \/ \E s \in 1..Len(sockets) : TransportOpen(s)
    \/ \E s \in 1..Len(sockets) : TransportClose(s, FALSE)
    \/ \E s \in 1..Len(sockets), u \in Users, t \in RelayTimestamps :
          ReceiveCheckIn(s, [username |-> u, timestamp |-> t, message |-> RelayMessage])
    \/ \E i \in 1..Len(timers) : FireBackoff(i)
    \/ \E i \in 1..Len(timers) : FireHistoryTimer(i)
    \/ \E i \in 1..Len(timers) : FireSimFallback(i)
    \/ \E i \in 1..Len(timers) : FireSim(i)
    \/ Advance

SpecAuto == InitAuto /\ [][NextAuto]_vars

(***************************************************************************)
(* The history-complete heuristic: check-ins arriving at instants between  *)
(* the timers' deadlines                                                   *)
(***************************************************************************)
MaxCallsHist == 3

MaxTimeHistMs == 3500

\* the silences between the relay's messages, in ms
ArrivalGapsMs == {100, 200, 2200}

InitHist ==
    /\ InitProgram
    /\ budget = MaxCallsHist
    /\ horizon = Ticks(StartMs + MaxTimeHistMs)

NextHist ==
    \/ \E b \in BOOLEAN : UpdateAuthStatus(b)
    \/ \E i \in 1..Len(tasks) : ConnectTokenDone(i)
    \/ \E s \in 1..Len(sockets) : TransportOpen(s)
    \/ \E s \in 1..Len(sockets), u \in Users :
          ReceiveCheckIn(s, [username |-> u, timestamp |-> StartMs, message |-> RelayMessage])
    \/ \E s \in 1..Len(sockets), k \in 1..Len(OtherPayloads) : ReceiveOther(s, k)
    \/ \E i \in 1..Len(timers) : FireHistoryTimer(i)
    \/ \E ms \in ArrivalGapsMs : Elapse(ms)
    \/ Advance

SpecHist == InitHist /\ [][NextHist]_vars

(***************************************************************************)
(* The three check-in lists at their bound: a client with a                *)
(* SecondaryCheckInView, a CheckInProvider and a LargerAvatarsProvider     *)
(* subscribed, after Prefill check-ins of distinct users were delivered    *)
(* and before the webview of the view is resolved.                         *)
(* Usernames are numbered here.                                            *)
(***************************************************************************)
Prefill == 99

MaxCallsCap == 3

\* the j-th check-in delivered before the run starts; the timestamps rise
\* or fall with j
PrefillEntry(j, rising) ==
    [username |-> j,
     timestamp |-> StartMs + (IF rising THEN j ELSE Prefill + 1 - j),
     message |-> RelayMessage]

\* the usernames and timestamps of the check-ins delivered during the run:
\* a user already listed and new ones; older than, equal to and newer than
\* what is listed
CapUsernames == {1, Prefill + 1, Prefill + 2}

CapTimestamps == {StartMs, StartMs + 1, StartMs + Prefill + MaxCallsCap + 1}

InitCap ==
    /\ now = Ticks(StartMs + Prefill + MaxCallsCap + 1)
    /\ socket = 1
    /\ sockets = <<[state |-> "OPEN", listeners |-> TRUE]>>
    /\ reconnectInterval = Ticks(BaseReconnectMs)
    /\ initialHistoryReceived = TRUE
    /\ receivingInitialHistory = FALSE
    /\ onlineUsersCount = 0
    /\ lastCheckInTime = 0
    /\ currentReconnectAttempt = 0
    /\ isAuthenticated = TRUE
    /\ timers = <<>>
    /\ tasks = <<>>
    /\ \E rising \in BOOLEAN :
          /\ checkIns = [j \in 1..Prefill |-> PrefillEntry(j, rising)]
          /\ allReceivedCheckIns = checkIns
          /\ pendingCheckIns = checkIns
          /\ webviewReady = FALSE
          /\ readyMessageReceived = FALSE
          /\ hasView = FALSE
          /\ viewVisible = FALSE
          /\ newCheckInsCount = Prefill
          /\ providerCheckIns = [j \in 1..Prefill |-> PrefillEntry(Prefill + 1 - j, rising)]
          /\ avatarsCheckIns = providerCheckIns
    /\ insertedUsernames = 1..Prefill
    /\ InitTracker
    /\ out = <<>>
    /\ wire = <<>>
    /\ last = [name |-> "Init", n |-> 0]
    /\ obs = InitObs
    /\ budget = MaxCallsCap
    /\ horizon = now

\* the 'message' handler of the open socket on a new_checkin, with the
\* listeners of the view and of the two providers on onMessageReceived: each
\* calls its addCheckIn
Deliver(c) ==
    /\ isConnected /\ sockets[socket].listeners
    /\ allReceivedCheckIns' = storeCheckIn(allReceivedCheckIns, c)
    /\ timers' = IF receivingInitialHistory
                 THEN Arm(SelectSeq(timers, LAMBDA t : ~(t.kind = "historyIdle" /\ t.n = socket)),
                          Timer("historyIdle", now + Ticks(HistoryIdleMs), socket))
                 ELSE timers
    /\ ViewReceives(c, <<>>)
    /\ providerCheckIns' = CheckInProvider_addCheckIn(providerCheckIns, c)
    /\ avatarsCheckIns' = LargerAvatarsProvider_addCheckIn(avatarsCheckIns, c)
    /\ insertedUsernames' = insertedUsernames \cup {c.username}
    /\ wire' = <<>>
    /\ Step("Deliver", c.username)
    /\ UNCHANGED <<now, tasks, obs>> /\ UNCHANGED trackerVars
    /\ UNCHANGED <<socket, sockets, reconnectInterval, initialHistoryReceived,
                   receivingInitialHistory, onlineUsersCount, lastCheckInTime,
                   currentReconnectAttempt, isAuthenticated>>
    /\ Spend

NextCap ==
    \E u \in CapUsernames, t \in CapTimestamps :
        Deliver([username |-> u, timestamp |-> t, message |-> RelayMessage])

SpecCap == InitCap /\ [][NextCap]_vars

(***************************************************************************)
(* The webview of the view: resolved, made ready and updated while the     *)
(* relay's check-ins arrive on the open socket                             *)
(***************************************************************************)
MaxCallsView == 3

MaxTimeViewMs == 3000

InitViewRun ==
    /\ InitOnline
    /\ budget = MaxCallsView
    /\ horizon = Ticks(StartMs + MaxTimeViewMs)

NextViewRun ==
    \/ \E s \in 1..Len(sockets), u \in Users, t \in RelayTimestamps :
          ReceiveCheckIn(s, [username |-> u, timestamp |-> t, message |-> RelayMessage])
    \/ \E i \in 1..Len(timers) : FireHistoryTimer(i)
    \/ ResolveWebviewView
    \/ \E i \in 1..Len(tasks), signedIn \in BOOLEAN : ViewSeedDone(i, signedIn)
    \/ WebviewReady
    \/ \E i \in 1..Len(timers) : FireViewFallback(i)
    \/ \E i \in 1..Len(tasks), signedIn \in BOOLEAN : ViewReadyDone(i, signedIn)
    \/ FirePendingRetry
    \/ Advance

SpecView == InitViewRun /\ [][NextViewRun]_vars

(***************************************************************************)
(* Signed submissions: sendCheckIn on the open socket with whatever        *)
(* getAuthToken() resolves to                                              *)
(***************************************************************************)
MaxCallsSign == 2

MaxTimeSignMs == 3000

InitSign ==
    /\ InitOnline
    /\ budget = MaxCallsSign
    /\ horizon = Ticks(StartMs + MaxTimeSignMs)

NextSign ==
    \/ \E u \in Users, m \in SentMessages : SendCheckIn(u, m)
    \/ \E i \in 1..Len(tasks), token \in Tokens : SendTokenResolved(i, token)
    \/ \E i \in 1..Len(timers) : FireEcho(i)
    \/ \E i \in 1..Len(timers) : FireCooldownTick(i)
    \/ \E i \in 1..Len(timers) : FireHistoryTimer(i)
    \/ Advance

SpecSign == InitSign /\ [][NextSign]_vars

(***************************************************************************)
(* Properties of the connection state machine                              *)
(***************************************************************************)
Fired(e) == e \in {out[i] : i \in 1..Len(out)}

FiredNext(e) == e \in {out'[i] : i \in 1..Len(out')}

LiveSockets == {s \in 1..Len(sockets) : sockets[s].state \in {"CONNECTING", "OPEN"}}

\* C3: at every moment at most one relay transport of the client is in state
\* CONNECTING or OPEN.
C3_SingleLiveTransport == Cardinality(LiveSockets) <= 1

\* min(5000 * 1.5^(k-1), 30000) ms, in ticks
RECURSIVE BackoffDelay(_)
BackoffDelay(k) ==
    IF k <= 1 THEN Ticks(BaseReconnectMs) ELSE GrowInterval(BackoffDelay(k - 1))

\* C6: after k consecutive failed connection attempts with no successful open
\* in between, the k-th scheduled reconnect delay is min(5000 * 1.5^(k-1), 30000)
\* ms on every failure path, and reconnectInterval never exceeds 30000 ms.
C6_BackoffGrowth ==
    /\ obs.failedAttempts >= 1 => obs.lastDelay = BackoffDelay(obs.failedAttempts)
    /\ reconnectInterval <= Ticks(MaxReconnectMs)

IsClose(l) == l.name \in {"TransportClose", "TransportCloseAuth"}

CloseHandlerEffect ==
    /\ FiredNext(StatusFalse)
    /\ reconnectInterval' = reconnectInterval
    /\ IF last'.name = "TransportClose" /\ autoReconnect
       THEN timers' = Arm(timers, Timer("backoff", now + reconnectInterval, 0))
       ELSE timers' = timers

GrowsOnlyInBackoffTimer ==
    reconnectInterval' > reconnectInterval =>
        /\ last'.name = "FireBackoff"
        /\ \E i \in 1..Len(timers) : timers[i].kind = "backoff" /\ timers[i].due <= now
        /\ reconnectInterval' = GrowInterval(reconnectInterval)

\* C7 as stated: on every transport close a status event false is emitted; a
\* close that is not an authentication failure schedules exactly one connect()
\* after the current reconnectInterval, and the interval is grown only by that
\* timer, after the delay.
C7_EveryCloseReported ==
    [][(IsClose(last') => CloseHandlerEffect) /\ GrowsOnlyInBackoffTimer]_vars

\* C7 as amended: the same, for every close of a socket whose handlers are
\* still attached (connect() strips the handlers of a CLOSING socket it drops)
C7_AttachedCloseReported ==
    [][((IsClose(last') /\ sockets[last'.n].listeners) => CloseHandlerEffect)
        /\ GrowsOnlyInBackoffTimer]_vars

\* a close handler has run, armed its timer and left the interval alone, and
\* a later backoff timer has grown the interval
C7_Witness ==
    /\ last.name = "TransportClose" /\ sockets[last.n].listeners
    /\ Fired(StatusFalse)
    /\ reconnectInterval > Ticks(BaseReconnectMs)
    /\ \E i \in 1..Len(timers) :
          timers[i] = Timer("backoff", now + reconnectInterval, 0)

\* C8: a successful open resets reconnectInterval to 5000 ms and emits status
\* true, and whenever the current socket is OPEN reconnectInterval is 5000 ms.
C8_BaseIntervalWhileOpen ==
    /\ (last.name = "TransportOpen" /\ sockets[last.n].listeners) =>
          (reconnectInterval = Ticks(BaseReconnectMs) /\ Fired(StatusTrue))
    /\ isConnected => reconnectInterval = Ticks(BaseReconnectMs)

\* C9: every reconnect attempt gets an id strictly greater than all earlier
\* ones, and an attempt superseded by a newer one before its delay elapsed
\* never calls connect(): only the newest registered attempt does.
C9_AttemptIdsIncrease ==
    /\ \A i, j \in 1..Len(obs.attemptIds) :
          i < j => obs.attemptIds[i] < obs.attemptIds[j]
    /\ last.name = "FireAttemptConnect" => last.n = Len(obs.attemptIds)

\* C10: once reconnect() has been called after a close, the backoff timer that
\* close armed neither calls connect() nor changes reconnectInterval.
C10_SupersededBackoffInert ==
    [][(last'.name = "FireBackoff" /\ last'.n = 1) =>
          (reconnectInterval' = reconnectInterval /\ tasks' = tasks /\ socket' = socket)]_vars

(***************************************************************************)
(* The reconciliation buffers                                              *)
(***************************************************************************)
Retained(list, u) == {i \in 1..Len(list) : list[i].username = u}

RetainsMax(list, u, m) ==
    m > 0 => /\ Retained(list, u) # {}
             /\ \A i \in Retained(list, u) : list[i].timestamp = m

\* C1: whatever the arrival order of the check-ins of one username, and
\* whatever check-ins of other usernames come in between, the entry that
\* storeCheckIn retains for it carries the maximum timestamp applied so far,
\* and so does the entry addCheckIn retains while the view holds fewer than
\* 100 usernames.
C1_RetainsMaxTimestamp ==
    \A u \in Users :
        /\ RetainsMax(allReceivedCheckIns, u, obs.maxStored[u])
        /\ Len(checkIns) < MaxCheckIns => RetainsMax(checkIns, u, obs.maxShown[u])

\* an older check-in arrived after a newer one at both buffers, with another
\* username in between
C1_Witness ==
    /\ obs.lateStored > 0 /\ obs.lateShown > 0
    /\ Len(allReceivedCheckIns) > 1 /\ Len(checkIns) > 1

OnePerUsername(list) ==
    \A i, j \in 1..Len(list) : list[i].username = list[j].username => i = j

\* C2: after any sequence of received, locally echoed or simulated check-ins,
\* allReceivedCheckIns and the view's checkIns hold at most one entry per
\* username.
C2_OneEntryPerUsername ==
    OnePerUsername(allReceivedCheckIns) /\ OnePerUsername(checkIns)

\* a received, a written and echoed, and a simulated check-in of one username
\* went through both buffers
C2_Witness ==
    /\ obs.stored > Len(allReceivedCheckIns) /\ obs.shown > Len(checkIns)
    /\ Len(checkIns) > 0
    /\ last.name = "FireEcho"

(***************************************************************************)
(* The cooldown gate                                                       *)
(***************************************************************************)
\* C4: two checkin messages written to the relay socket are at least
\* cooldownPeriodMs apart, overlapping sendCheckIn calls included.
C4_WritesCooldownApart ==
    \A i, j \in 1..Len(obs.checkinWrites) :
        i < j => obs.checkinWrites[j] - obs.checkinWrites[i] >= cooldownPeriodMs

SendResolvedTrue == last.name \in {"SendTokenDone", "SendSimulated"}

\* C5: right after sendCheckIn resolves true canCheckIn() is false and the
\* remaining time is cooldownPeriodMs; the remaining time always is
\* max(0, cooldownPeriodMs - (now - lastCheckInTime)); once cooldownPeriodMs
\* has elapsed since the last submission canCheckIn() is true and the
\* remaining time is 0.
C5_CooldownAfterSend ==
    /\ SendResolvedTrue => ~canCheckIn /\ getRemainingCooldownTime = cooldownPeriodMs
    /\ getRemainingCooldownTime = Max(0, cooldownPeriodMs - (DateNow - lastCheckInTime))
    /\ DateNow - lastCheckInTime >= cooldownPeriodMs => canCheckIn /\ getRemainingCooldownTime = 0

\* a submission went out and its cooldown period has run out
C5_Witness ==
    /\ Len(obs.checkinWrites) > 0
    /\ DateNow - lastCheckInTime > cooldownPeriodMs
    /\ last.name = "Idle"

(***************************************************************************)
(* connect(), disconnect(), reconnect() and the connect-timeout            *)
(***************************************************************************)
\* the step runs connect() and nothing else of the client before it
ConnectCalled ==
    \/ last'.name \in {"FireRetry", "FireAttemptConnect"}
    \/ last'.name = "UpdateAuthStatus" /\ last'.n = 1 /\ ~isConnected /\ autoReconnect

StatusFiredNext == \E i \in 1..Len(out') : out'[i].ev = "status"

\* C11: a connect() call made while the socket is CONNECTING or OPEN creates
\* no socket, leaves the initial-history flags and reconnectInterval as they
\* are, and emits a status event, in the CONNECTING and in the OPEN case.
C11_DuplicateConnectReasserts ==
    [][(ConnectCalled /\ ConnectSkips) =>
          /\ sockets' = sockets /\ socket' = socket /\ tasks' = tasks
          /\ initialHistoryReceived' = initialHistoryReceived
          /\ receivingInitialHistory' = receivingInitialHistory
          /\ reconnectInterval' = reconnectInterval
          /\ StatusFiredNext]_vars

\* the step runs disconnect()
DisconnectCalled ==
    \/ last'.name = "Disconnect"
    \/ last'.name = "UpdateAuthStatus" /\ last'.n = 0 /\ isConnected
    \/ last'.name = "Reconnect" /\ ReadyState(socket, sockets) \in {"CONNECTING", "OPEN", "CLOSING"}

\* C12: disconnect() always emits a status event false, whether the socket is
\* open, connecting, already closed or absent, and right afterwards
\* isConnected() is false.
C12_DisconnectReportsFalse ==
    [][DisconnectCalled => (FiredNext(StatusFalse) /\ ~isConnected')]_vars

\* disconnect() has just closed and dropped a socket
C12_Witness ==
    /\ last.name = "Disconnect" /\ last.n # 0
    /\ sockets[last.n].state = "CLOSING" /\ socket = 0
    /\ Fired(StatusFalse) /\ ~isConnected

ReconnectTearsDown == ReadyState(socket, sockets) \in {"CONNECTING", "OPEN", "CLOSING"}

\* C13: reconnect() on a socket that is not CLOSED disconnects it first
\* (status false, socket cleared) and leaves the new attempt to a timer at
\* least 1000 ms away; with no socket or a CLOSED one it registers the attempt
\* at once without disconnecting; the attempt of the first case is registered
\* only when that delay has passed, the old socket being torn down by then.
C13_ReconnectSettles ==
    [][/\ (last'.name = "Reconnect" /\ ReconnectTearsDown) =>
              /\ FiredNext(StatusFalse) /\ socket' = 0
              /\ sockets'[socket].state \notin {"CONNECTING", "OPEN"}
              /\ currentReconnectAttempt' = currentReconnectAttempt
              /\ tasks' = tasks
              /\ \E i \in 1..Len(timers') :
                    /\ timers'[i].kind = "settle" /\ timers'[i].mark = socket
                    /\ timers'[i].due >= now + Ticks(1000)
              /\ \A i \in 1..Len(timers') :
                    timers'[i].kind = "attempt" =>
                        \E j \in 1..Len(timers) : timers[j] = timers'[i]
       /\ (last'.name = "Reconnect" /\ ~ReconnectTearsDown) =>
              /\ ~FiredNext(StatusFalse)
              /\ socket' = socket /\ sockets' = sockets
              /\ currentReconnectAttempt' = DateNow
              /\ \E i \in 1..Len(timers') :
                    timers'[i].kind = "attempt" /\ timers'[i].n = DateNow
       /\ last'.name = "FireSettle" =>
              /\ \E i \in 1..Len(timers) : timers[i].kind = "settle" /\ timers[i].due <= now
              /\ sockets[last'.n].state \notin {"CONNECTING", "OPEN"}
              /\ socket # last'.n]_vars

\* reconnect() tore down socket 1, and after the settle delay and the attempt
\* delay connect() created socket 2
C13_Witness ==
    /\ last.name = "ConnectTokenDone" /\ last.n = 2
    /\ obs.attemptIds # <<>> /\ currentReconnectAttempt >= StartMs + SettleDelayMs
    /\ sockets[1].state \in {"CLOSING", "CLOSED"}

\* C14: the connect-timeout of a socket that is still CONNECTING 10 s after
\* its creation closes that socket and emits status false; the timeout of a
\* socket that opened has been cancelled.
C14_ConnectTimeoutCloses ==
    [][/\ (last'.name = "FireConnectTimeout" /\ sockets[last'.n].state = "CONNECTING") =>
              (sockets'[last'.n].state # "CONNECTING" /\ FiredNext(StatusFalse))
       /\ \A i \in 1..Len(timers') :
              timers'[i].kind = "connectTimeout" => sockets'[timers'[i].n].state # "OPEN"]_vars

(***************************************************************************)
(* The initial history                                                     *)
(***************************************************************************)
HistoryArmed == receivingInitialHistory /\ ~initialHistoryReceived

HistoryFiredNext == FiredNext(Event("history", 0))

ConnectTasks(ts) == Cardinality({i \in 1..Len(ts) : ts[i].kind = "connect"})

\* the step enters receiving-initial-history mode: a connect() that gets past
\* its state checks, or requestHistory()
HistoryEntry ==
    \/ ConnectTasks(tasks') > ConnectTasks(tasks)
    \/ last'.name = "ViewReadyDone" /\ last'.n = 1 /\ Len(checkIns) = 0

C16_HistoryByCeiling ==
    [][/\ last'.name = "ConnectTokenDone" =>
              \E i \in 1..Len(timers') :
                  /\ timers'[i].kind = "historyCeiling" /\ timers'[i].n = last'.n
                  /\ timers'[i].due = now + Ticks(3000)
       /\ \A i \in 1..Len(timers) :
              timers[i].kind = "historyCeiling" =>
                  /\ timers[i].due >= now
                  /\ \/ \E j \in 1..Len(timers') :
                           timers'[j].kind = "historyCeiling" /\ timers'[j].n = timers[i].n
                     \/ last'.name = "FireHistoryCeiling" /\ last'.n = timers[i].n
       /\ last'.name = "FireHistoryCeiling" =>
              \E i \in 1..Len(timers) :
                  /\ timers[i].kind = "historyCeiling" /\ timers[i].n = last'.n
                  /\ HistoryFiredNext \/ timers[i].mark = 1]_vars

\* the ceiling of a socket has fired the history event and no check-in was
\* ever received
C16_Witness ==
    /\ last.name = "FireHistoryCeiling" /\ Fired(Event("history", 0))
    /\ allReceivedCheckIns = <<>> /\ initialHistoryReceived

\* C17: while receiving initial history a new_checkin leaves exactly one idle
\* timer of its socket, due 1 s after the arrival, and the history event never
\* fires while an idle timer restarted by a new_checkin has not yet run its
\* 1 s (connect at t0, arrivals at t0+100 and t0+300: not before t0+1300).
C17_HistoryAfterIdleWindow ==
    [][/\ (last'.name = "ReceiveCheckIn" /\ receivingInitialHistory) =>
              \E i \in 1..Len(timers') :
                  /\ timers'[i] = Timer("historyIdle", now + Ticks(1000), last'.n)
                  /\ \A j \in 1..Len(timers') :
                         (timers'[j].kind = "historyIdle" /\ timers'[j].n = last'.n) => j = i
       /\ HistoryFiredNext =>
              \A i \in 1..Len(timers) :
                  timers[i].kind = "historyIdle" => timers[i].due <= now']_vars

\* the example's run: two arrivals 100 ms and 300 ms after connect(), and the
\* history event fires 1300 ms after it
C17_Example ==
    /\ Fired(Event("history", 0)) /\ now = Ticks(StartMs + 1300)
    /\ Len(allReceivedCheckIns) = 2 /\ last.name = "FireHistoryTimer"

\* a payload that is not valid JSON or whose type is none of new_checkin,
\* online_users and error
Dropped(p) == ~p.json \/ ~p.object \/ p.type \notin {"new_checkin", "online_users", "error"}

\* C18: a received payload that is not valid JSON, or of a type other than
\* new_checkin, online_users and error, changes nothing: the sockets stay as
\* they were (open), allReceivedCheckIns, onlineUsersCount, the history flags
\* and the timers are unchanged, and no event is emitted.
C18_MalformedDropped ==
    [][(last'.name = "ReceiveOther" /\ Dropped(OtherPayloads[last'.n])) =>
          /\ sockets' = sockets /\ socket' = socket
          /\ allReceivedCheckIns' = allReceivedCheckIns
          /\ onlineUsersCount' = onlineUsersCount
          /\ initialHistoryReceived' = initialHistoryReceived
          /\ receivingInitialHistory' = receivingInitialHistory
          /\ timers' = timers
          /\ out' = <<>>]_vars

\* a payload that does not parse was received on the open socket while the
\* idle timer of the initial history was pending
C18_Witness ==
    /\ last.name = "ReceiveOther" /\ ~OtherPayloads[last.n].json
    /\ isConnected /\ receivingInitialHistory
    /\ \E i \in 1..Len(timers) : timers[i].kind = "historyIdle" /\ timers[i].due > now

(***************************************************************************)
(* Properties of the bounded check-in lists                                *)
(***************************************************************************)
\* the check-in the last step delivered
Delivered == [username |-> last'.n, timestamp |-> out'[1].val]

KeptUsernames == {checkIns'[j].username : j \in 1..Len(checkIns')}

\* C19: when SecondaryCheckInView.addCheckIn inserts a check-in of a new
\* username into a list of 100, every entry that is gone is no newer than any
\* entry kept, and the new check-in is kept whenever it is not the oldest.
C19_DropsOldest ==
    [][(last'.name = "Deliver" /\ FindIndex(checkIns, last'.n) = 0 /\ Len(checkIns) = 100) =>
          /\ \A i \in 1..Len(checkIns) :
                 checkIns[i].username \notin KeptUsernames =>
                     \A j \in 1..Len(checkIns') :
                         checkIns[i].timestamp <= checkIns'[j].timestamp
          /\ Delivered.username \notin KeptUsernames =>
                 \A j \in 1..Len(checkIns') :
                     Delivered.timestamp <= checkIns'[j].timestamp
          /\ (\E i \in 1..Len(checkIns) : checkIns[i].timestamp < Delivered.timestamp) =>
                 Delivered.username \in KeptUsernames]_vars

\* C20: the lists of SecondaryCheckInView, CheckInProvider and
\* LargerAvatarsProvider never hold more than 100 check-ins, and hold exactly
\* 100 once addCheckIn has been called with more than 100 distinct usernames.
C20_ListsBounded ==
    /\ Len(checkIns) <= 100
    /\ Len(providerCheckIns) <= 100
    /\ Len(avatarsCheckIns) <= 100
    /\ Cardinality(insertedUsernames) > 100 =>
           /\ Len(checkIns) = 100
           /\ Len(providerCheckIns) = 100
           /\ Len(avatarsCheckIns) = 100

\* check-ins of more than 100 distinct usernames have been delivered
C20_Witness ==
    /\ last.name = "Deliver" /\ Cardinality(insertedUsernames) > 100
    /\ Len(checkIns) = 100 /\ Len(providerCheckIns) = 100

\* C21: WebSocketClient.allReceivedCheckIns is bounded by the history
\* capacity: once check-ins of more than 100 distinct usernames have been
\* received it holds at most 100 entries.
C21_StoreBounded ==
    Cardinality(insertedUsernames) > 100 => Len(allReceivedCheckIns) <= 100

\* C22: CheckInProvider.checkIns and LargerAvatarsProvider.checkIns hold at
\* most one check-in per username: a newer check-in of a listed username
\* takes the place of the older entry and a non-newer one leaves the list as
\* it is.
C22_ProvidersOnePerUsername ==
    [][last'.name = "Deliver" =>
          /\ OnePerUsername(providerCheckIns') /\ OnePerUsername(avatarsCheckIns')
          /\ \A i \in Retained(providerCheckIns, Delivered.username) :
                 IF Delivered.timestamp > providerCheckIns[i].timestamp
                 THEN /\ Len(providerCheckIns') = Len(providerCheckIns)
                      /\ providerCheckIns'[i].timestamp = Delivered.timestamp
                 ELSE providerCheckIns' = providerCheckIns
          /\ \A i \in Retained(avatarsCheckIns, Delivered.username) :
                 IF Delivered.timestamp > avatarsCheckIns[i].timestamp
                 THEN /\ Len(avatarsCheckIns') = Len(avatarsCheckIns)
                      /\ avatarsCheckIns'[i].timestamp = Delivered.timestamp
                 ELSE avatarsCheckIns' = avatarsCheckIns]_vars

\* the events of the view in the next step's output
ViewEventsNext ==
    {i \in 1..Len(out') : out'[i].ev \in {"checkInsCount", "notifyNewCheckIn", "updateCheckIns"}}

\* C23: a check-in that is not strictly newer than the entry the view holds
\* for its username is discarded silently: checkIns, newCheckInsCount and
\* pendingCheckIns stay as they are and the view emits no count event, no
\* notification and no webview update.
C23_StaleDiscardedSilently ==
    [][(/\ last'.name = "Deliver"
        /\ \E i \in Retained(checkIns, Delivered.username) :
               ~(Delivered.timestamp > checkIns[i].timestamp)) =>
          /\ checkIns' = checkIns
          /\ newCheckInsCount' = newCheckInsCount
          /\ pendingCheckIns' = pendingCheckIns
          /\ ViewEventsNext = {}]_vars

\* a check-in of a listed user that is not newer than the listed one was
\* delivered and only the client's message event came out
C23_Witness ==
    /\ last.name = "Deliver" /\ Len(out) = 1
    /\ \E i \in Retained(checkIns, last.n) : out[1].val <= checkIns[i].timestamp

\* newest first
Descending(list) ==
    \A i, j \in 1..Len(list) : i < j => list[i].timestamp >= list[j].timestamp

\* the lists posted to the webview by the next step
PostedNext == {out'[i].val : i \in {j \in 1..Len(out') : out'[j].ev = "updateCheckIns"}}

\* C24: every list updateView posts holds the view's check-ins ordered by
\* timestamp descending, as they are at that call, and a step that only
\* calls updateView leaves checkIns as it was, in content and order.
C24_PostsSortedCopy ==
    [][/\ \A p \in PostedNext :
              /\ Descending(p)
              /\ Len(p) = Len(checkIns')
              /\ \A j \in 1..Len(checkIns') : \E k \in 1..Len(p) : p[k] = checkIns'[j]
       /\ last'.name \in {"ViewReadyDone", "FireHistoryTimer", "FireHistoryCeiling"} =>
              checkIns' = checkIns]_vars

\* updateView alone posted a list whose order differs from the order of
\* checkIns
C24_Witness ==
    /\ last.name \in {"ViewReadyDone", "FireHistoryTimer", "FireHistoryCeiling"}
    /\ \E i \in 1..Len(out) :
           /\ out[i].ev = "updateCheckIns"
           /\ Len(out[i].val) > 1 /\ out[i].val # checkIns

(***************************************************************************)
(* Submissions                                                             *)
(***************************************************************************)
\* the message a submission of m must carry
Carried(m) == IF Len(m) <= 42 THEN m ELSE SubSeq(m, 1, 42)

\* C25: the message of every transmitted checkin and of every locally echoed
\* or simulated check-in is the submitted one when it has at most 42 code
\* units and its first 42 code units otherwise, and truncating a truncated
\* message changes nothing.
C25_MessageTruncated ==
    [][/\ last'.name \in {"SendTokenDone", "SendSimulated"} =>
              \E i \in 1..Len(tasks) :
                  /\ tasks[i].kind = "send" /\ tasks' = Remove(tasks, i)
                  /\ \A w \in 1..Len(wire') :
                         wire'[w].type = "checkin" =>
                             wire'[w].c.message = Carried(tasks[i].c.message)
                  /\ \E e \in 1..Len(timers') :
                         /\ timers'[e].kind = "echo"
                         /\ timers'[e].due = now + Ticks(500)
                         /\ timers'[e].msg.message = Carried(tasks[i].c.message)
                  /\ \E k \in 1..Len(allReceivedCheckIns') :
                         /\ allReceivedCheckIns'[k].username = tasks[i].c.username
                         /\ allReceivedCheckIns'[k].message \in
                                {Carried(m) : m \in SentMessages}
       /\ \A m \in SentMessages : Truncate(Truncate(m)) = Truncate(m)]_vars

\* a message over the limit was submitted and written to the open socket
C25_Witness ==
    /\ last.name = "SendTokenDone"
    /\ Len(wire) = 1 /\ Len(wire[1].c.message) = 42

\* C26: sendCheckIn called less than the cooldown period after the last
\* submission resolves false and does nothing else: no token fetch, no socket
\* write, no stored or echoed check-in, lastCheckInTime as it was and no
\* cooldown ticker started.
C26_RefusedOnCooldown ==
    [][(/\ last'.name \in {"SendCheckIn", "SendCheckInRefused"}
        /\ DateNow - lastCheckInTime < 600000) =>
          /\ last'.name = "SendCheckInRefused"
          /\ tasks' = tasks /\ timers' = timers
          /\ wire' = <<>> /\ out' = <<>>
          /\ allReceivedCheckIns' = allReceivedCheckIns
          /\ checkIns' = checkIns
          /\ lastCheckInTime' = lastCheckInTime]_vars

\* a submission was refused while the cooldown of an earlier one was running
C26_Witness ==
    /\ last.name = "SendCheckInRefused"
    /\ lastCheckInTime > 0 /\ DateNow - lastCheckInTime < 600000

\* list holds exactly one entry of username u and it carries message m
HoldsOnce(list, u, m) ==
    /\ Cardinality(Retained(list, u)) = 1
    /\ \A k \in Retained(list, u) : list[k].message = m

\* C27: after a successful sendCheckIn on the open socket allReceivedCheckIns
\* holds exactly one entry of the sender, with the submitted message, and so
\* does the view's checkIns once the local echo has fired, whatever the relay
\* sends; storing or adding the same check-in a second time changes nothing.
C27_SenderReconciled ==
    [][/\ last'.name = "SendTokenDone" =>
              \E i \in 1..Len(tasks) :
                  /\ tasks[i].kind = "send" /\ tasks' = Remove(tasks, i)
                  /\ HoldsOnce(allReceivedCheckIns', tasks[i].c.username,
                               Carried(tasks[i].c.message))
       /\ last'.name = "FireEcho" =>
              \E e \in 1..Len(timers) :
                  /\ timers[e].kind = "echo" /\ timers' = Remove(timers, e)
                  /\ HoldsOnce(checkIns', timers[e].msg.username, timers[e].msg.message)
                  /\ storeCheckIn(storeCheckIn(allReceivedCheckIns, timers[e].msg), timers[e].msg)
                         = storeCheckIn(allReceivedCheckIns, timers[e].msg)
                  /\ addCheckIn(addCheckIn(ViewState, timers[e].msg), timers[e].msg).checkIns
                         = addCheckIn(ViewState, timers[e].msg).checkIns]_vars

\* the JSON of the seven signed fields of the check-in c, in their order
SignedJson(c) ==
    <<<<"type", "checkin">>, <<"username", c.username>>, <<"tags", NoTags>>,
      <<"message", c.message>>, <<"timestamp", c.timestamp>>,
      <<"avatarUrl", AvatarUrl(c.username)>>, <<"snippet", RandomSnippet>>>>

\* C28: the signature of a transmitted checkin is the keyed hash of the JSON
\* of type, username, tags, message, timestamp, avatarUrl and snippet, in
\* that order, followed by the signing timestamp taken at the call; nothing
\* else, the auth token included, goes into it, and the signature and
\* signatureTimestamp on the wire are that pair.
C28_SignatureOverFields ==
    [][\A w \in 1..Len(wire') :
           wire'[w].type = "checkin" =>
               /\ wire'[w].signatureTimestamp = DateNow
               /\ wire'[w].signature =
                      [key |-> SigningSecret,
                       data |-> <<SignedJson(wire'[w].c), wire'[w].signatureTimestamp>>]
               /\ wire'[w].token \in Tokens]_vars

\* a checkin was written with a token other than the session's
C28_Witness ==
    /\ last.name = "SendTokenDone" /\ Len(wire) = 1
    /\ wire[1].type = "checkin" /\ wire[1].token = "gho_other"

(***************************************************************************)
(* Authentication closes and the cooldown ticker                           *)
(***************************************************************************)
\* the timers the client arms on its own (after a close, after a failed
\* connect) whose callback ends in connect()
ConnectingTimers(tm) ==
    {i \in 1..Len(tm) : tm[i].kind \in {"backoff", "retry"}}

\* C29: when a socket closes with code 4000 or a reason containing 'auth', a
\* status event false is emitted and no reconnect is scheduled: the handler
\* arms no timer and starts no connect(), and no automatic reconnect timer
\* is left pending, so that only reconnect() or updateAuthStatus(true) leads
\* to the next connect().
C29_AuthCloseStopsReconnect ==
    [][(/\ last'.name = "TransportCloseAuth"
        /\ sockets[last'.n].listeners) =>
          /\ out' = <<StatusFalse>>
          /\ timers' = timers /\ tasks' = tasks
          /\ ConnectingTimers(timers') = {}]_vars

\* the cooldown tickers still running
CooldownTickers(tm) == {i \in 1..Len(tm) : tm[i].kind = "cooldown"}

\* C30: the ticker of a successful submission emits the remaining time once
\* per second, emits a final 0 once the cooldown has expired and then stops:
\* a tick with time remaining leaves exactly one ticker running, due one
\* second later, and the tick that emits 0 leaves none, so that no cooldown
\* event follows the 0 event before the next successful submission.
C30_TickerStopsAtZero ==
    [][last'.name = "FireCooldownTick" =>
          /\ out' = <<Event("cooldown", getRemainingCooldownTime)>>
          /\ getRemainingCooldownTime > 0 =>
                \E i \in 1..Len(timers') :
                    /\ CooldownTickers(timers') = {i}
                    /\ timers'[i].due = now + Ticks(CooldownTickMs)
          /\ getRemainingCooldownTime = 0 => CooldownTickers(timers') = {}]_vars

(***************************************************************************)
(* Submissions without an open socket                                      *)
(***************************************************************************)
\* the check-in simulateCheckInResponse fabricates from the arguments the
\* pending call i was made with
Fabricated(i) ==
    [username |-> tasks[i].c.username, timestamp |-> DateNow,
     message |-> IF Len(tasks[i].c.message) > 42
                 THEN SubSeq(tasks[i].c.message, 1, 42) ELSE tasks[i].c.message]

\* C31: when the socket is not OPEN at the moment the token fetch of a
\* sendCheckIn completes, nothing is written to the transport, yet the
\* fabricated check-in is stored and its echo armed for 500 ms later,
\* lastCheckInTime is set to now, the cooldown starts and the call resolves
\* true.
C31_SimulatedWhenNotOpen ==
    [][\A i \in 1..Len(tasks) :
         (/\ tasks[i].kind = "send"
          /\ tasks' = Remove(tasks, i)
          /\ ReadyState(socket, sockets) # "OPEN") =>
            /\ wire' = <<>>
            /\ obs'.checkinWrites = obs.checkinWrites
            /\ allReceivedCheckIns' = storeCheckIn(allReceivedCheckIns, Fabricated(i))
            /\ \E k \in 1..Len(timers') :
                  /\ timers'[k].kind = "echo"
                  /\ timers'[k].msg = Fabricated(i)
                  /\ timers'[k].due = now + Ticks(500)
            /\ lastCheckInTime' = DateNow
            /\ out' = <<Event("cooldown", cooldownPeriodMs)>>
            /\ last'.name = "SendSimulated"]_vars

\* a submission was completed by simulation and its echo has been shown
C31_Witness ==
    /\ last.name = "FireEcho"
    /\ wire = <<>>
    /\ obs.checkinWrites = <<>>
    /\ lastCheckInTime > 0
    /\ ReadyState(socket, sockets) # "OPEN"
    /\ allReceivedCheckIns # <<>>

(***************************************************************************)
(* Staying disconnected                                                    *)
(***************************************************************************)
\* a reconnect() is under way: its settle or attempt timer still pends
ReconnectUnderWay ==
    \E i \in 1..Len(timers) : timers[i].kind \in {"settle", "attempt"}

\* C32: after disconnect() or dispose() has closed the socket, and with no
\* reconnect() or updateAuthStatus(true) since, the client stays disconnected:
\* the close event of the socket they closed (CLOSING, listeners attached,
\* this.socket already null) arms no timer and starts no connect(), so that
\* no new socket is created.
C32_StaysDisconnected ==
    [][(/\ last'.name = "TransportClose"
        /\ sockets[last'.n].state = "CLOSING"
        /\ sockets[last'.n].listeners
        /\ socket = 0
        /\ ~ReconnectUnderWay) =>
          /\ timers' = timers
          /\ tasks' = tasks]_vars

(***************************************************************************)
(* Timers that outlive their socket                                        *)
(***************************************************************************)
\* C33: a connect-timeout only ever closes the socket it was armed for: the
\* timeout armed for a socket that closed before opening closes no socket
\* when it fires, so that no later attempt is force-closed less than 10 s
\* after it began.
C33_TimeoutClosesOwnSocket ==
    [][(/\ last'.name = "FireConnectTimeout"
        /\ sockets[last'.n].state = "CLOSED") =>
          /\ sockets' = sockets
          /\ out' = <<>>]_vars

\* C34: an idle or ceiling timer fires history-received only for the
\* connection attempt that armed it and only once that attempt's transport
\* has opened: when such a timer fires the event, the socket it was armed for
\* is the current socket and is not CONNECTING.
C34_HistoryForOwnOpenSocket ==
    [][(/\ last'.name \in {"FireHistoryCeiling", "FireHistoryTimer"}
        /\ last'.n >= 1
        /\ HistoryFiredNext) =>
          /\ socket = last'.n
          /\ sockets[last'.n].state # "CONNECTING"]_vars

(***************************************************************************)
(* The emitted status and the transport                                    *)
(***************************************************************************)
\* the events of the last step
Emitted == {out[i] : i \in 1..Len(out)}

\* C35: the emitted connection status agrees with the transport: a status
\* event true is emitted only while the current socket is OPEN, and no status
\* event false is emitted while the current socket is OPEN.
C35_StatusAgreesWithTransport ==
    /\ StatusTrue \in Emitted => ReadyState(socket, sockets) = "OPEN"
    /\ StatusFalse \in Emitted => ReadyState(socket, sockets) # "OPEN"

(***************************************************************************)
(* What is written to the transport: connecting, submitting and the view's *)
(* history request in one run                                              *)
(***************************************************************************)
MaxCallsWire == 3

MaxTimeWireMs == 3000

InitWire ==
    /\ InitProgram
    /\ budget = MaxCallsWire
    /\ horizon = Ticks(StartMs + MaxTimeWireMs)

NextWire ==
    \/ UpdateAuthStatus(TRUE)
    \/ \E i \in 1..Len(tasks) : ConnectTokenDone(i)
    \/ \E s \in 1..Len(sockets) : TransportOpen(s)
    \/ \E s \in 1..Len(sockets) : TransportClose(s, FALSE)
    \/ SendCheckIn(LocalUser, <<1>>)
    \/ \E i \in 1..Len(tasks) : SendTokenDone(i)
    \/ \E i \in 1..Len(timers) : FireEcho(i)
    \/ \E i \in 1..Len(timers) : FireCooldownTick(i)
    \/ \E i \in 1..Len(timers) : FireHistoryTimer(i)
    \/ ResolveWebviewView
    \/ \E i \in 1..Len(tasks) : ViewSeedDone(i, TRUE)
    \/ WebviewReady
    \/ \E i \in 1..Len(timers) : FireViewFallback(i)
    \/ \E i \in 1..Len(tasks) : ViewReadyDone(i, TRUE)
    \/ Advance

SpecWire == InitWire /\ [][NextWire]_vars

\* C36: checkin, history_request and online_users_request messages are
\* written only to a socket whose readyState is OPEN: whatever a step wrote
\* went to this.socket and this.socket is OPEN, so that requestOnlineUsers()
\* and requestHistory() made in any other state wrote nothing.
C36_WritesOnlyWhenOpen ==
    \A i \in 1..Len(wire) :
        /\ wire[i].type \in {"checkin", "history_request", "online_users_request"}
        /\ wire[i].sock = socket
        /\ ReadyState(socket, sockets) = "OPEN"

\* the view's status listener ran requestOnlineUsers() while the current
\* socket was not OPEN, and nothing was written
C36_Witness ==
    /\ StatusTrue \in Emitted
    /\ ReadyState(socket, sockets) # "OPEN"
    /\ wire = <<>>

(***************************************************************************)
(* requestHistory()                                                        *)
(***************************************************************************)
\* the view called requestHistory() in this step
RequestHistoryCalled ==
    /\ last'.name = "ViewReadyDone" /\ last'.n = 1
    /\ Len(checkIns) = 0

\* the history_request written to the current socket
HistoryRequestWire == <<[sock |-> socket, type |-> "history_request", c |-> NoCheckIn]>>

\* C37: requestHistory() when the socket is not OPEN fires history-received
\* at once and sends nothing; when the socket is OPEN it sends exactly one
\* history_request and history-received fires no later than 3 s afterwards
\* even if the relay never answers: the timer that comes due 3 s after the
\* request fires the event unless it has fired since the request.
C37_RequestHistory ==
    [][/\ (RequestHistoryCalled /\ ReadyState(socket, sockets) # "OPEN") =>
              /\ HistoryFiredNext
              /\ wire' = <<>>
              /\ timers' = HistoryFired(timers)
       /\ (RequestHistoryCalled /\ ReadyState(socket, sockets) = "OPEN") =>
              /\ wire' = HistoryRequestWire
              /\ ~HistoryFiredNext
              /\ \E k \in 1..Len(timers') :
                    timers'[k] = Timer("historyRequest", now + Ticks(3000), 0)
       /\ (last'.name = "FireHistoryTimer" /\ last'.n = 0) =>
              \E i \in 1..Len(timers) :
                  /\ timers[i].kind = "historyRequest"
                  /\ timers[i].due = now
                  /\ timers' \in {Remove(timers, i), HistoryFired(Remove(timers, i))}
                  /\ HistoryFiredNext \/ timers[i].mark = 1
       /\ \A i \in 1..Len(timers) :
              timers[i].kind = "historyRequest" => timers[i].due >= now']_vars

\* the relay never answered a history_request and the 3 s timer of
\* requestHistory() fired the event
C37_Witness ==
    /\ last = [name |-> "FireHistoryTimer", n |-> 0]
    /\ Event("history", 0) \in Emitted
    /\ ReadyState(socket, sockets) = "OPEN"
    /\ allReceivedCheckIns = <<>>

(***************************************************************************)
(* FileHistoryTracker and getActiveFileTags                                *)
(***************************************************************************)
\* FileHistoryTracker.maxHistorySize
maxHistorySize == 30

\* a tracker that only appends: nothing is moved and nothing trimmed
addFileAppend(files, filePath) == Append(files, filePath)

\* addFile(filePath) on the insertion-ordered Set: delete if present, add at
\* the end, then delete the first entry if the size exceeds maxHistorySize
addFile(files, filePath) ==
    LET without == SelectSeq(files, LAMBDA f : f # filePath)
        added == Append(without, filePath)
    IN  IF Len(added) > maxHistorySize THEN Tail(added) ELSE added

\* getRecentFiles(): Array.from(this.recentFiles)
getRecentFiles(files) == files

\* paths are numbered; path.extname(filePath) of path p, by its number
Extname(filePath) ==
    CASE filePath % 6 = 0 -> ".tsx"
      [] filePath % 6 = 1 -> ".ts"
      [] filePath % 6 = 2 -> ".TSX"
      [] filePath % 6 = 3 -> ".scss"
      [] filePath % 6 = 4 -> ""
      [] OTHER -> ".txt"

\* .toLowerCase().replace('.', '') on the extensions above
LowerNoDot(ext) ==
    CASE ext = ".tsx" -> "tsx"
      [] ext = ".ts" -> "ts"
      [] ext = ".TSX" -> "tsx"
      [] ext = ".scss" -> "scss"
      [] ext = ".txt" -> "txt"
      [] OTHER -> ""

\* extensionMappings[fileExtension], or no tags for an extension not listed
extensionMappings(fileExtension) ==
    CASE fileExtension = "jsx" -> <<"react">>
      [] fileExtension = "tsx" -> <<"react", "typescript">>
      [] fileExtension = "vue" -> <<"vue">>
      [] fileExtension = "svelte" -> <<"svelte">>
      [] fileExtension = "ts" -> <<"typescript">>
      [] fileExtension = "py" -> <<"python">>
      [] fileExtension = "rb" -> <<"ruby">>
      [] fileExtension = "php" -> <<"php">>
      [] fileExtension = "go" -> <<"golang">>
      [] fileExtension = "rs" -> <<"rust">>
      [] fileExtension = "java" -> <<"java">>
      [] fileExtension = "cs" -> <<"csharp", "dotnet">>
      [] fileExtension = "fs" -> <<"fsharp", "dotnet">>
      [] fileExtension = "sql" -> <<"database", "sql">>
      [] fileExtension = "dart" -> <<"flutter", "dart">>
      [] fileExtension = "kt" -> <<"kotlin">>
      [] fileExtension = "swift" -> <<"swift", "ios">>
      [] fileExtension = "scala" -> <<"scala">>
      [] fileExtension = "clj" -> <<"clojure">>
      [] fileExtension = "elm" -> <<"elm">>
      [] fileExtension = "ex" -> <<"elixir">>
      [] fileExtension = "hs" -> <<"haskell">>
      [] fileExtension = "r" -> <<"r">>
      [] fileExtension = "toml" -> <<"configuration">>
      [] fileExtension = "yaml" -> <<"configuration">>
      [] fileExtension = "yml" -> <<"configuration">>
      [] fileExtension = "json" -> <<"json">>
      [] fileExtension = "md" -> <<"markdown">>
      [] fileExtension = "html" -> <<"html">>
      [] fileExtension = "css" -> <<"css">>
      [] fileExtension = "scss" -> <<"scss", "css">>
      [] fileExtension = "less" -> <<"less", "css">>
      [] OTHER -> <<>>

\* languageId null (a file that is not open)
NoLanguage == ""

\* processFileForTags(filePath, languageId, allTags): the tags it pushes
processFileForTags(filePath, languageId) ==
    LET fileExtension == LowerNoDot(Extname(filePath)) IN
    (IF languageId # NoLanguage /\ languageId # "plaintext" THEN <<languageId>> ELSE <<>>)
    \o (IF fileExtension # "" THEN extensionMappings(fileExtension) ELSE <<>>)

\* the tags pushed for the first k visible editors (non-file documents are
\* skipped)
RECURSIVE EditorTags(_, _)
EditorTags(editors, k) ==
    IF k = 0 THEN <<>>
    ELSE EditorTags(editors, k - 1)
         \o (IF editors[k].scheme = "file"
             THEN processFileForTags(editors[k].fileName, editors[k].languageId)
             ELSE <<>>)

\* processedFiles: the file names of the visible file editors
processedFiles(editors) ==
    {editors[k].fileName : k \in {j \in 1..Len(editors) : editors[j].scheme = "file"}}

\* the tags pushed for the first k recent files (those already processed are
\* skipped)
RECURSIVE RecentTags(_, _, _)
RecentTags(recent, processed, k) ==
    IF k = 0 THEN <<>>
    ELSE RecentTags(recent, processed, k - 1)
         \o (IF recent[k] \in processed THEN <<>>
             ELSE processFileForTags(recent[k], NoLanguage))

\* allTags when getActiveFileTags reaches its return (the 'nodejs' tag of the
\* package.json check is pushed by a promise callback, after the return)
allTags(editors, recent) ==
    EditorTags(editors, Len(editors))
    \o RecentTags(recent, processedFiles(editors), Len(recent))

\* [...new Set(allTags)]: the first occurrence of each tag, in order
uniqueTags(tags) ==
    LET firsts == {i \in 1..Len(tags) : \A j \in 1..(i - 1) : tags[j] # tags[i]}
        n == Cardinality(firsts)
    IN  SubSeq([k \in 1..n |->
                   tags[CHOOSE i \in firsts : Cardinality({j \in firsts : j <= i}) = k]],
               1, n)

\* no limit on the number of tags
unlimitedTags(tags) == tags

\* uniqueTags.slice(0, 3)
limitedTags(tags) == SubSeq(tags, 1, Min(3, Len(tags)))

getActiveFileTags(editors, recent) == limitedTags(uniqueTags(allTags(editors, recent)))

\* the editors the window may show
EditorChoices ==
    LET ed(scheme, fileName, languageId) ==
            [scheme |-> scheme, fileName |-> fileName, languageId |-> languageId]
    IN  {<<>>,
         <<ed("file", 1, "typescript")>>,
         <<ed("untitled", 2, "python"), ed("file", 3, "plaintext")>>,
         <<ed("file", 6, "typescriptreact"), ed("file", 1, "typescript")>>,
         <<ed("file", 5, "css"), ed("file", 9, "scss")>>}

\* the window shows other editors
ShowEditors(editors) ==
    /\ editors # visibleEditors
    /\ visibleEditors' = editors
    /\ out' = <<>> /\ wire' = <<>>
    /\ Step("ShowEditors", Len(editors))
    /\ UNCHANGED <<now, timers, tasks, obs, recentFiles, fileAdds,
                   providerCheckIns, avatarsCheckIns, insertedUsernames>>
    /\ UNCHANGED clientVars /\ UNCHANGED viewVars /\ Spend

\* fileTracker.addFile(fileName), as the debounced document listeners of the
\* extension call it
AddFile(filePath) ==
    /\ recentFiles' = addFile(recentFiles, filePath)
    /\ fileAdds' = Append(fileAdds, filePath)
    /\ out' = <<>> /\ wire' = <<>>
    /\ Step("AddFile", filePath)
    /\ UNCHANGED <<now, timers, tasks, obs, visibleEditors,
                   providerCheckIns, avatarsCheckIns, insertedUsernames>>
    /\ UNCHANGED clientVars /\ UNCHANGED viewVars /\ Spend

\* getActiveFileTags() as the yna.checkIn command and the webview form call it
\* for the tags of a submission; the event carries the returned array
GetActiveFileTags ==
    /\ out' = <<Event("tags", getActiveFileTags(visibleEditors, getRecentFiles(recentFiles)))>>
    /\ wire' = <<>>
    /\ Step("GetActiveFileTags", 0)
    /\ UNCHANGED <<now, timers, tasks, obs>>
    /\ UNCHANGED clientVars /\ UNCHANGED viewVars /\ UNCHANGED providerVars /\ Free

FilesPrefill == 29

MaxCallsFiles == 3

\* the paths the listeners report: the oldest and the newest of the history
\* and paths it has not seen
FilePaths == {1, FilesPrefill, FilesPrefill + 1, FilesPrefill + 2}

\* a session in which FilesPrefill files have been edited, in rising or in
\* falling order of their numbers
InitFiles ==
    /\ now = Ticks(StartMs)
    /\ socket = 0
    /\ sockets = <<>>
    /\ reconnectInterval = Ticks(BaseReconnectMs)
    /\ initialHistoryReceived = FALSE
    /\ receivingInitialHistory = FALSE
    /\ allReceivedCheckIns = <<>>
    /\ onlineUsersCount = 0
    /\ lastCheckInTime = 0
    /\ currentReconnectAttempt = 0
    /\ isAuthenticated = TRUE
    /\ timers = <<>>
    /\ tasks = <<>>
    /\ InitView
    /\ providerCheckIns = <<>>
    /\ avatarsCheckIns = <<>>
    /\ insertedUsernames = {}
    /\ visibleEditors = <<>>
    /\ \E rising \in BOOLEAN :
          recentFiles = [j \in 1..FilesPrefill |-> IF rising THEN j ELSE FilesPrefill + 1 - j]
    /\ fileAdds = recentFiles
    /\ out = <<>>
    /\ wire = <<>>
    /\ last = [name |-> "Init", n |-> 0]
    /\ obs = InitObs
    /\ budget = MaxCallsFiles
    /\ horizon = now

NextFiles ==
    \/ \E editors \in EditorChoices : ShowEditors(editors)
    \/ \E filePath \in FilePaths : AddFile(filePath)
    \/ GetActiveFileTags

SpecFiles == InitFiles /\ [][NextFiles]_vars

\* the tags of a sequence, and the place a tag is first seen at
TagSet(tags) == {tags[i] : i \in 1..Len(tags)}

FirstSeen(tags, t) == CHOOSE i \in 1..Len(tags) : tags[i] = t /\ \A j \in 1..(i - 1) : tags[j] # t

PathSet(files) == {files[i] : i \in 1..Len(files)}

PlaceOf(files, p) == CHOOSE i \in 1..Len(files) : files[i] = p

LastAdded(adds, p) == CHOOSE i \in 1..Len(adds) : adds[i] = p /\ \A j \in (i + 1)..Len(adds) : adds[j] # p

\* C39: FileHistoryTracker holds at most 30 distinct paths; addFile of a path
\* already present moves it to the most-recent position without changing the
\* size; when a 31st distinct path is added the least recently added path is
\* evicted; getRecentFiles lists the paths from least to most recently added.
C39_RecentFilesBounded ==
    [][last'.name = "AddFile" =>
          LET p == last'.n
              before == getRecentFiles(recentFiles)
              after == getRecentFiles(recentFiles')
          IN  /\ Len(after) <= 30
              /\ \A i, j \in 1..Len(after) : i # j => after[i] # after[j]
              /\ after[Len(after)] = p
              /\ \A a, b \in PathSet(after) \ {p} :
                    /\ a \in PathSet(before) /\ b \in PathSet(before)
                    /\ PlaceOf(before, a) < PlaceOf(before, b)
                          <=> PlaceOf(after, a) < PlaceOf(after, b)
              /\ p \in PathSet(before) =>
                    Len(after) = Len(before) /\ PathSet(after) = PathSet(before)
              /\ (p \notin PathSet(before) /\ Len(before) < 30) =>
                    PathSet(after) = PathSet(before) \cup {p}
              /\ (p \notin PathSet(before) /\ Len(before) = 30) =>
                    \E oldest \in PathSet(before) :
                        /\ PathSet(after) = (PathSet(before) \ {oldest}) \cup {p}
                        /\ \A q \in PathSet(before) \ {oldest} :
                              LastAdded(fileAdds, oldest) < LastAdded(fileAdds, q)
              /\ \A i, j \in 1..Len(after) :
                    i < j => LastAdded(fileAdds', after[i]) < LastAdded(fileAdds', after[j])]_vars

\* a 31st distinct path was added after an older path had been added again:
\* the tracker is full and a path has been evicted
C39_Witness ==
    /\ last.name = "AddFile"
    /\ Len(recentFiles) = 30
    /\ Cardinality(PathSet(fileAdds)) > 30
    /\ Len(fileAdds) > Cardinality(PathSet(fileAdds))

====
